---- MODULE Spec2Model ----
(***************************************************************************)
(* gammarf: the connector (modules/gammarf_connector.py).                   *)
(*                                                                         *)
(* Threads: the ConnectorWorker thread ("conn", ConnectorWorker.run), and   *)
(* the threads that call the connector's facade: the REPL main thread and   *)
(* a module worker thread (a remote-task dispatcher or a data module).      *)
(*                                                                         *)
(* Time is discrete, one tick = LOOP_SLEEP = 0.5 s.  A time.sleep(x) or a   *)
(* poll timeout lasts exactly its duration, code between two blocking       *)
(* calls takes no time, and time passes only when no thread can step        *)
(* (the clocks utcnow and sleep are taken to agree).  Interleaving of the   *)
(* threads' steps at one instant is arbitrary.                              *)
(***************************************************************************)
EXTENDS Integers, Sequences, FiniteSets, TLC

\* ------------------------------------------------------------ constants
\* One tick is LOOP_SLEEP = .5 s; the durations below are in ticks.
TicksPerSecond == 2
\* A wait of 2 s where the code has 5 s.
RECONNECT_ATTEMPT_WAIT_2s == 2 * TicksPerSecond
LOOP_SLEEP == 1
CMD_POLL_TIMEOUT == (1500 * TicksPerSecond) \div 1000
CMD_ATTEMPTS == 2
CMD_ATTEMPT_FAIL_SLEEP == 2 * TicksPerSecond
HEARTBEAT_INT == 10 * TicksPerSecond
RECONNECT_ATTEMPT_WAIT == 5 * TicksPerSecond
REQ_HEARTBEAT == 0
REQ_INTERESTING_GET == 1
REQ_INTERESTING_ADD == 11

\* The elapsed times the code computes are kept relative and saturate one
\* past the largest value any comparison of the code or of a claim reads.
HbCap == HEARTBEAT_INT + 3 * LOOP_SLEEP
AttemptCap == RECONNECT_ATTEMPT_WAIT + LOOP_SLEEP

\* ------------------------------------------------------------ configuration
station_pass == "pw"
stationid == "stn01"

\* Values str(uuid4()) can return.
Uuids == {"abcdef01-2345-4678-9abc-def012345678",
          "0f1e2d3c-4b5a-4978-8695-a4b3c2d1e0ff"}

\* hashlib.md5(s.encode('utf-8')).hexdigest() on the strings that occur.
Md5HexDigest(s) ==
    CASE s = "pwabcdef01" -> "e3311dad775086b0f6a2ec26617c6e51"
      [] s = "pw0f1e2d3c" -> "33f59ed7991d6fabf22c7a5f14dc9feb"
      [] OTHER -> "d41d8cd98f00b204e9800998ecf8427e"

\* ------------------------------------------------------------ threads
Users == {"repl", "worker"}
Threads == {"conn"} \cup Users
UserRequests == {REQ_INTERESTING_GET, REQ_INTERESTING_ADD}

\* Replies the server can put on the command channel: ok; ok carrying a
\* messages list whose length is no multiple of three; the two
\* authentication failures; any other reply value ("none" stands for
\* none, error, task_exists, ...); a JSON object without a reply field;
\* bytes that are not JSON.
Replies == {"ok", "ok_badmessages", "unauthorized", "invalid_station",
            "none", "noreply", "garbage"}

NoData == [request |-> -1, rand |-> "", sign |-> ""]

\* kind: "none", "sent" (a request went out on the command socket), "ret"
\* (sendcmd returned v, or raised), "dat" (senddat returned; v tells whether
\* the payload went out on the data socket, was dropped, or the call raised)
NoEvent == [kind |-> "none", t |-> "none", v |-> "none", msg |-> NoData]

VARIABLES
    pc,               \* per thread: where it is
    timer,            \* per thread: ticks left of its sleep or poll
    attempt,          \* per thread: i of sendcmd's current for loop
    data,             \* per thread: the request dict it is sending
    resp,             \* run: resp, the result of the heartbeat's sendcmd
    connected,        \* self.connected
    connect_message,  \* self.connect_message
    loc,              \* self.loc is a fix (TRUE) or None (FALSE)
    try_connect,      \* run: try_connect
    lost_connection,  \* run: lost_connection
    sinceAttempt,     \* utcnow() - connect_attempted, -1 for None
    sinceHB,          \* utcnow() - since_heartbeat, -1 for None
    cmdsock,          \* self.cmdsock: the state of the REQ socket
    datsock,          \* self.datsock
    poller,           \* self.poller has self.cmdsock registered
    cmdlock,          \* self.cmdlock: its holder, or "free"
    ev                \* what the last step did: a message put on a socket,
                      \* a return of sendcmd / senddat to its caller, or none

vars == <<pc, timer, attempt, data, resp, connected, connect_message, loc,
          try_connect, lost_connection, sinceAttempt, sinceHB, cmdsock,
          datsock, poller, cmdlock, ev>>

\* The device registry (modules/gammarf_devices.py) and the kernel's
\* commands on it (gammarf.py).
VARIABLES
    phase,            \* "boot" before GrfModuleDevices.__init__, "up" after
                      \* it, "exit" when it ended the process
    exit_code,        \* the status the process exited with, -1 while it runs
    have_hackrf,      \* self.have_hackrf
    numdevs,          \* self.numdevs
    devs,             \* self.devs: devid -> device record
    last              \* what the last step on the registry did and returned

dvars == <<phase, exit_code, have_hackrf, numdevs, devs, last>>

\* The kernel's main thread (gammarf.py) and a remote-task dispatcher
\* (modules/gammarf_remotetask.py).
VARIABLES
    config,           \* config['startup']: key -> value
    commands,         \* the command table: name -> (module, handler)
    main,             \* where the main thread is, and its loop variables
    rt                \* the dispatcher thread and the task it runs

kvars == <<config, commands, main, rt>>

\* The worker modules (modules/gammarf_scanner.py, gammarf_snapshot.py,
\* gammarf_adsb.py, gammarf_ism433.py, gammarf_tpms.py) and the threads
\* they start.
VARIABLES
    mods,             \* per module: self.worker is set, self.remotetask
    threads,          \* the live worker threads: module, devid, remotetask
    enrolled,         \* GrfModuleRemotetask.workers: devid, target, task
    pending,          \* cmd_run between the module's run and occupy
    child             \* a child-process worker and its child process

mvars == <<mods, threads, enrolled, pending, child>>

connLocals == <<try_connect, lost_connection, sinceAttempt, sinceHB>>
socks == <<cmdsock, datsock, poller>>

\* pcs inside sendcmd's exchange: the lock is held from the enrichment to
\* the return.
InExchange == {"send", "poll", "pollwait"}

\* ------------------------------------------------- device registry values
\* Python values.  A device id is an int or a str: I(n) and S(s).  A job is
\* None, a str (a sentinel text) or the tuple (module, cmdline, started).
I(n) == <<"int", n>>
S(s) == <<"str", s>>
None == <<>>
Str(s) == <<s>>
Triple(m, a, t) == <<m, a, t>>
NoKey == <<"none", "">>

\* bool(job): None is falsy, a non-empty str and a tuple are truthy.
Truthy(job) == job # None
IsTriple(job) == Len(job) = 3

HACKRF_DEVNUM == 0
PSEUDO_DEVNUM_BASE == 9000

\* The job texts of lines 134, 416 and 424.
VirtualProvider == Str("Virtual Provider")
OutOfCommission == Str("*** Out of commission")
Reserved == Str("*** Reserved")

\* HackRfDev(), RtlSdrDev(), VirtualDev(), PseudoDev() as constructed:
\* the fields the registry's operations read and write.
NewDev(devtype) ==
    [devtype |-> devtype, job |-> None, usable |-> TRUE, reserved |-> FALSE]

\* time.strftime("%c") at the moment of a call.
strftime == "Mon Nov  2 10:45:25 2026"

\* A cmdline of None (no parameters given to run).
NoCmdline == ""

\* What the last step on the registry was: the operation, the devid it was
\* given (target), what the module's run or stop returned if it was called
\* (ok), what the operation returned or raised (ret), the devid the module
\* was run on or the operation acted on (id), the job a run recorded, and
\* the running list a heartbeat built.
NoLast == [op |-> "none", target |-> NoKey, ok |-> "notcalled",
           ret |-> "none", id |-> NoKey, job |-> None, list |-> <<>>]

EmptyDevs == [k \in {} |-> NewDev("none")]

\* Before the devices module is constructed.
devices_boot ==
    /\ phase = "boot"
    /\ exit_code = -1
    /\ have_hackrf = FALSE
    /\ numdevs = 0
    /\ devs = EmptyDevs
    /\ last = NoLast

\* The connector as constructed.
connector_init ==
    /\ pc = [t \in Threads |-> IF t = "conn" THEN "top" ELSE "idle"]
    /\ timer = [t \in Threads |-> 0]
    /\ attempt = [t \in Threads |-> 0]
    /\ data = [t \in Threads |-> NoData]
    /\ resp = "none"
    /\ connected = FALSE
    /\ connect_message = "None"
    /\ loc = FALSE
    /\ try_connect = FALSE
    /\ lost_connection = FALSE
    /\ sinceAttempt = -1
    /\ sinceHB = -1
    /\ cmdsock = "none"
    /\ datsock = "none"
    /\ poller = FALSE
    /\ cmdlock = "free"
    /\ ev = NoEvent

\* No [startup] section in the configuration.
NoConfig == [startup |-> [k \in {} |-> ""]]

\* No dispatcher thread: remotetask runs on no device.
NoDispatcher ==
    [pc |-> "none", stoprequest |-> FALSE, devid |-> NoKey, targetmod |-> "",
     task |-> FALSE, elapsed |-> 0, duration |-> 0]

\* main() before GrfState(): no command registered, config['modules'] to
\* be loaded, devid of pseudo_startup_tasks not yet set.
kernel_boot ==
    /\ commands = [k \in {} |-> <<>>]
    /\ main = [at |-> "GrfState", todo |-> {}, jobs |-> <<>>, devid |-> 0]
    /\ rt = NoDispatcher

\* The modules as constructed (self.worker = None; self.remotetask is set
\* by the first run), no thread started, the REPL in no command.
WorkerMods == {"scanner", "snapshot", "adsb"}
NoChild ==
    [module |-> "", pc |-> "none", stoprequest |-> FALSE, proc |-> "none",
     pipe |-> "empty", devid |-> NoKey]

modules_boot ==
    /\ mods = [m \in WorkerMods |-> [worker |-> FALSE, remotetask |-> FALSE]]
    /\ threads = <<>>
    /\ enrolled = <<>>
    /\ pending = <<>>
    /\ child = NoChild

Init ==
    /\ devices_boot /\ connector_init /\ kernel_boot /\ config = NoConfig
    /\ modules_boot


\* ------------------------------------------------------------ auth fields
\* str(uuid4())[:8]
Rand(u) == SubSeq(u, 1, 8)

\* m = md5(); m.update((station_pass + rand).encode('utf-8')); m.hexdigest()[:12]
Sign(pass, rand) == SubSeq(Md5HexDigest(pass \o rand), 1, 12)

\* run, lines 157-169: the heartbeat dict with its own rand and sign.
HeartbeatData(u) ==
    [request |-> REQ_HEARTBEAT, rand |-> Rand(u),
     sign |-> Sign(station_pass, Rand(u))]

EnrichKeepSign(d, u) == [d EXCEPT !.rand = Rand(u)]

\* sendcmd, lines 235-241 (and senddat, 214-220): a fresh rand, and the sign
\* over it, replace whatever the dict held.
Enrich(d, u) ==
    [d EXCEPT !.rand = Rand(u), !.sign = Sign(station_pass, Rand(u))]

\* ------------------------------------------------------------ sockets
SockCanSendAny == cmdsock \in {"ready", "awaiting", "readable"}

\* zmq.REQ (line 132): a send is accepted only when no request of this
\* socket is outstanding; a closed or missing socket raises.
SockCanSend == cmdsock = "ready"

\* poller.poll() reports POLLIN for self.cmdsock (lines 260-261).
Readable == poller /\ cmdsock = "readable"

Event(kind, t, v, msg) == [kind |-> kind, t |-> t, v |-> v, msg |-> msg]

\* ------------------------------------------------------------ sendcmd
CanAcquireUnlocked(t) == TRUE

\* with self.cmdlock (line 231)
CanAcquire(t) == cmdlock = "free"

RefusedNever(t) == FALSE

\* line 232
Refused(t) == ~connected /\ data[t].request # REQ_HEARTBEAT

\* The return of sendcmd to its caller: the with block releases the lock;
\* run goes on to read resp (line 172), a facade caller is idle again.
sendcmd_return(t, v) ==
    /\ cmdlock' = "free"
    /\ ev' = Event("ret", t, v, NoData)
    /\ resp' = IF t = "conn" THEN v ELSE resp
    /\ pc' = [pc EXCEPT ![t] = IF t = "conn" THEN "hbresp" ELSE "idle"]
    /\ timer' = [timer EXCEPT ![t] = 0]
    /\ attempt' = [attempt EXCEPT ![t] = 0]
    /\ data' = [data EXCEPT ![t] = NoData]

\* A facade caller calls sendcmd (GrfModuleConnector.sendcmd, lines 405-406,
\* and the wrappers at 365-400).
sendcmd_call(t) ==
    /\ t \in Users /\ pc[t] = "idle"
    /\ \E r \in UserRequests :
         data' = [data EXCEPT ![t] = [NoData EXCEPT !.request = r]]
    /\ pc' = [pc EXCEPT ![t] = "enter"]
    /\ ev' = NoEvent
    /\ UNCHANGED <<timer, attempt, resp, connected, connect_message, loc,
                   connLocals, socks, cmdlock>>
    /\ UNCHANGED <<dvars, kvars, mvars>>

\* Lines 231-241: take the lock, refuse when not connected, else enrich.
\* data.update(self.loc) raises TypeError when self.loc is None.
sendcmd_lock(t) ==
    /\ pc[t] = "enter" /\ CanAcquire(t)
    /\ IF Refused(t)
         THEN sendcmd_return(t, "not_connected")
         ELSE IF ~loc
           THEN sendcmd_return(t, "raised")
           ELSE /\ \E u \in Uuids : data' = [data EXCEPT ![t] = Enrich(data[t], u)]
                /\ cmdlock' = t
                /\ pc' = [pc EXCEPT ![t] = "send"]
                /\ attempt' = [attempt EXCEPT ![t] = 0]
                /\ ev' = NoEvent
                /\ UNCHANGED <<timer, resp>>
    /\ UNCHANGED <<connected, connect_message, loc, connLocals, socks>>
    /\ UNCHANGED <<dvars, kvars, mvars>>

\* Lines 243-257: one send attempt (after the sleep that follows a failed
\* one).  send_string(..., NOBLOCK) can raise on any socket (EAGAIN) and
\* always raises when the REQ socket cannot take a request.
sendcmd_send(t) ==
    /\ pc[t] = "send" /\ timer[t] = 0
    /\ \E ok \in BOOLEAN :
         IF ok /\ SockCanSend
           THEN /\ cmdsock' = "awaiting"
                /\ ev' = Event("sent", t, "cmd", data[t])
                /\ pc' = [pc EXCEPT ![t] = "poll"]
                /\ attempt' = [attempt EXCEPT ![t] = 0]
                /\ timer' = [timer EXCEPT ![t] = CMD_POLL_TIMEOUT]
                /\ data' = [data EXCEPT ![t] = NoData]
                /\ UNCHANGED <<resp, connected, connect_message, cmdlock>>
           ELSE IF attempt[t] = CMD_ATTEMPTS - 1
             THEN /\ connected' = FALSE
                  /\ connect_message' = "error sending to command socket"
                  /\ sendcmd_return(t, "txerror")
                  /\ UNCHANGED cmdsock
             ELSE /\ attempt' = [attempt EXCEPT ![t] = attempt[t] + 1]
                  /\ timer' = [timer EXCEPT ![t] = CMD_ATTEMPT_FAIL_SLEEP]
                  /\ ev' = NoEvent
                  /\ UNCHANGED <<pc, data, resp, connected, connect_message,
                                 cmdsock, cmdlock>>
    /\ UNCHANGED <<loc, connLocals, datsock, poller>>
    /\ UNCHANGED <<dvars, kvars, mvars>>

\* Lines 259-273, POLLIN: recv_string and json.loads of what the server
\* sent.  A reply that does not decode is consumed; on the first attempt
\* the loop polls again at once.
sendcmd_recv(t) ==
    /\ pc[t] = "poll" /\ Readable
    /\ cmdsock' = "ready"
    /\ \E r \in Replies :
         IF r # "garbage"
           THEN /\ sendcmd_return(t, r)
                /\ UNCHANGED <<connected, connect_message>>
           ELSE IF attempt[t] = CMD_ATTEMPTS - 1
             THEN /\ connected' = FALSE
                  /\ connect_message' = "error receiving from command socket"
                  /\ sendcmd_return(t, "rxerror")
             ELSE /\ attempt' = [attempt EXCEPT ![t] = attempt[t] + 1]
                  /\ timer' = [timer EXCEPT ![t] = CMD_POLL_TIMEOUT]
                  /\ ev' = NoEvent
                  /\ UNCHANGED <<pc, data, resp, connected, connect_message,
                                 cmdlock>>
    /\ UNCHANGED <<loc, connLocals, datsock, poller>>
    /\ UNCHANGED <<dvars, kvars, mvars>>

\* Lines 274-280: the poll timed out.
sendcmd_timeout(t) ==
    /\ pc[t] = "poll" /\ ~Readable /\ timer[t] = 0
    /\ IF attempt[t] = CMD_ATTEMPTS - 1
         THEN /\ connected' = FALSE
              /\ sendcmd_return(t, "noresp")
         ELSE /\ attempt' = [attempt EXCEPT ![t] = attempt[t] + 1]
              /\ timer' = [timer EXCEPT ![t] = CMD_ATTEMPT_FAIL_SLEEP]
              /\ pc' = [pc EXCEPT ![t] = "pollwait"]
              /\ ev' = NoEvent
              /\ UNCHANGED <<data, resp, connected, cmdlock>>
    /\ UNCHANGED <<connect_message, loc, connLocals, socks>>
    /\ UNCHANGED <<dvars, kvars, mvars>>

\* Line 279-280 then 260: the sleep is over, poll again.
sendcmd_repoll(t) ==
    /\ pc[t] = "pollwait" /\ timer[t] = 0
    /\ pc' = [pc EXCEPT ![t] = "poll"]
    /\ timer' = [timer EXCEPT ![t] = CMD_POLL_TIMEOUT]
    /\ ev' = NoEvent
    /\ UNCHANGED <<attempt, data, resp, connected, connect_message, loc,
                   connLocals, socks, cmdlock>>
    /\ UNCHANGED <<dvars, kvars, mvars>>

\* Line 260 while run has closed the socket under the poll (lines 110-113,
\* outside the lock): zmq sockets are not thread safe, the poll may go on
\* to its timeout or raise ZMQError, which sendcmd does not catch.
sendcmd_pollraise(t) ==
    /\ pc[t] = "poll" /\ cmdsock = "closed"
    /\ sendcmd_return(t, "raised")
    /\ UNCHANGED <<connected, connect_message, loc, connLocals, socks>>
    /\ UNCHANGED <<dvars, kvars, mvars>>

\* ------------------------------------------------------------ senddat
\* Lines 210-228, one call: no lock, a NOBLOCK send whose failure is
\* swallowed.  data.update(self.loc) is outside the try.
senddat(t) ==
    /\ t \in Users /\ pc[t] = "idle"
    /\ IF ~connected
         THEN ev' = Event("dat", t, "notconnected", NoData)
         ELSE IF ~loc
           THEN ev' = Event("dat", t, "raised", NoData)
           ELSE \E u \in Uuids, ok \in BOOLEAN :
                  IF ok /\ datsock = "open"
                    THEN ev' = Event("dat", t, "sent", Enrich(NoData, u))
                    ELSE ev' = Event("dat", t, "dropped", NoData)
    /\ UNCHANGED <<pc, timer, attempt, data, resp, connected, connect_message,
                   loc, connLocals, socks, cmdlock>>
    /\ UNCHANGED <<dvars, kvars, mvars>>

\* ------------------------------------------------------------ run
\* Lines 80-96 and 117-120: read the location, then branch on connected and
\* connect_attempted.
run_top ==
    /\ pc["conn"] = "top"
    /\ loc' \in BOOLEAN
    /\ IF connected
         THEN /\ try_connect' = FALSE
              /\ pc' = [pc EXCEPT !["conn"] = "hbcheck"]
              /\ UNCHANGED timer
         ELSE IF sinceAttempt # -1
           THEN /\ pc' = [pc EXCEPT !["conn"] = "backoff"]
                /\ timer' = [timer EXCEPT !["conn"] = RECONNECT_ATTEMPT_WAIT]
                /\ UNCHANGED try_connect
           ELSE /\ try_connect' = TRUE
                /\ pc' = [pc EXCEPT !["conn"] = "create"]
                /\ UNCHANGED timer
    /\ ev' = NoEvent
    /\ UNCHANGED <<attempt, data, resp, connected, connect_message,
                   lost_connection, sinceAttempt, sinceHB, socks, cmdlock>>
    /\ UNCHANGED <<dvars, kvars, mvars>>

ReconnectDueNever == FALSE

\* Lines 94-95
ReconnectDue == sinceAttempt > RECONNECT_ATTEMPT_WAIT

\* Lines 90-115, after time.sleep(RECONNECT_ATTEMPT_WAIT): when the floor
\* has passed, announce (which clears connect_message) and tear down the
\* sockets and the poll registration; a missing cmdsock makes the try
\* block stop at its first line.
run_backoff ==
    /\ pc["conn"] = "backoff" /\ timer["conn"] = 0
    /\ lost_connection' = TRUE
    /\ try_connect' = ReconnectDue
    /\ IF ReconnectDue
         THEN /\ connect_message' = "None"
              /\ IF cmdsock # "none"
                   THEN /\ cmdsock' = "closed"
                        /\ datsock' = "closed"
                        /\ poller' = FALSE
                   ELSE UNCHANGED socks
              /\ pc' = [pc EXCEPT !["conn"] = "create"]
         ELSE /\ pc' = [pc EXCEPT !["conn"] = "hbcheck"]
              /\ UNCHANGED <<connect_message, socks>>
    /\ ev' = NoEvent
    /\ UNCHANGED <<timer, attempt, data, resp, connected, loc, sinceAttempt,
                   sinceHB, cmdlock>>
    /\ UNCHANGED <<dvars, kvars, mvars>>

\* Lines 122-145: a connection attempt.  The socket calls can raise: before
\* anything is assigned (fail_dat) or after datsock and before cmdsock
\* (fail_cmd).
run_connect ==
    /\ pc["conn"] = "create"
    /\ sinceAttempt' = 0
    /\ \E outcome \in {"ok", "fail_dat", "fail_cmd"} :
         /\ datsock' = IF outcome = "fail_dat" THEN datsock ELSE "open"
         /\ cmdsock' = IF outcome = "ok" THEN "ready" ELSE cmdsock
         /\ poller' = IF outcome = "ok" THEN TRUE ELSE poller
         /\ connected' = IF outcome = "ok" THEN connected ELSE FALSE
         /\ connect_message' =
              IF outcome = "ok" THEN connect_message ELSE "error connecting"
         /\ try_connect' = (outcome = "ok")
         /\ ev' = Event("attempt", "conn", outcome, NoData)
    /\ pc' = [pc EXCEPT !["conn"] = "hbcheck"]
    /\ UNCHANGED <<timer, attempt, data, resp, loc, lost_connection, sinceHB,
                   cmdlock>>
    /\ UNCHANGED <<dvars, kvars, mvars>>

HeartbeatDueEarly == sinceHB # -1

\* Lines 147-154: ready_for_heartbeat
HeartbeatDue == sinceHB # -1 /\ sinceHB >= HEARTBEAT_INT

\* Line 156
WantHeartbeat == loc /\ (try_connect \/ HeartbeatDue)

\* Lines 147-171 and 208: build the heartbeat and call sendcmd, or sleep.
run_heartbeat ==
    /\ pc["conn"] = "hbcheck"
    /\ IF WantHeartbeat
         THEN /\ \E u \in Uuids :
                   data' = [data EXCEPT !["conn"] = HeartbeatData(u)]
              /\ pc' = [pc EXCEPT !["conn"] = "enter"]
              /\ UNCHANGED timer
         ELSE /\ pc' = [pc EXCEPT !["conn"] = "loopsleep"]
              /\ timer' = [timer EXCEPT !["conn"] = LOOP_SLEEP]
              /\ UNCHANGED data
    /\ ev' = NoEvent
    /\ UNCHANGED <<attempt, resp, connected, connect_message, loc,
                   connLocals, socks, cmdlock>>
    /\ UNCHANGED <<dvars, kvars, mvars>>

ReplyOkAny(r) == TRUE

\* Line 177 (after resp['reply'] at 173)
ReplyOk(r) == r \in {"ok", "ok_badmessages"}

\* Lines 172-208: the heartbeat's result.  The messages loop (190-197) pops
\* three at a time: a list of another length raises IndexError, which run
\* does not catch, and the thread ends.
run_reply ==
    /\ pc["conn"] = "hbresp"
    /\ connected' = ReplyOk(resp)
    /\ sinceHB' = IF ReplyOk(resp) THEN 0 ELSE sinceHB
    /\ lost_connection' = IF ReplyOk(resp) THEN FALSE ELSE lost_connection
    /\ connect_message' =
         CASE resp = "unauthorized" -> "station unauthorized"
           [] resp = "invalid_station" -> "invalid station"
           [] OTHER -> connect_message
    /\ pc' = [pc EXCEPT !["conn"] =
                IF resp = "ok_badmessages" THEN "dead" ELSE "loopsleep"]
    /\ timer' = [timer EXCEPT !["conn"] =
                   IF resp = "ok_badmessages" THEN 0 ELSE LOOP_SLEEP]
    /\ resp' = "none"
    /\ ev' = Event("hbresp", "conn", resp, NoData)
    /\ UNCHANGED <<attempt, data, loc, try_connect, sinceAttempt, socks,
                   cmdlock>>
    /\ UNCHANGED <<dvars, kvars, mvars>>

\* Line 208 then 80: the loop sleep is over.
run_loop ==
    /\ pc["conn"] = "loopsleep" /\ timer["conn"] = 0
    /\ pc' = [pc EXCEPT !["conn"] = "top"]
    /\ ev' = NoEvent
    /\ UNCHANGED <<timer, attempt, data, resp, connected, connect_message,
                   loc, connLocals, socks, cmdlock>>
    /\ UNCHANGED <<dvars, kvars, mvars>>

\* ------------------------------------------------------------ environment
\* The server answers the outstanding request: POLLIN on the socket (what
\* the answer is shows when recv_string at line 263 returns it).
ServerReply ==
    /\ cmdsock = "awaiting"
    /\ cmdsock' = "readable"
    /\ ev' = NoEvent
    /\ UNCHANGED <<pc, timer, attempt, data, resp, connected, connect_message,
                   loc, connLocals, datsock, poller, cmdlock>>
    /\ UNCHANGED <<dvars, kvars, mvars>>

\* A thread that can take a step now, without time passing.
CanStep(t) ==
    \/ pc[t] \in {"top", "create", "hbcheck", "hbresp"}
    \/ pc[t] = "enter" /\ CanAcquire(t)
    \/ pc[t] \in {"send", "pollwait", "backoff", "loopsleep"} /\ timer[t] = 0
    \/ pc[t] = "poll" /\ (timer[t] = 0 \/ Readable)

Elapse(x, cap) == IF x = -1 \/ x >= cap THEN x ELSE x + 1

\* Half a second passes (time.sleep at lines 90, 208, 256, 279 and the poll
\* timeout at 260 count down; the utcnow() differences at 94 and 148 grow).
Tick ==
    /\ \A t \in Threads : ~CanStep(t)
    /\ timer' = [t \in Threads |-> IF timer[t] > 0 THEN timer[t] - 1 ELSE 0]
    /\ sinceHB' = Elapse(sinceHB, HbCap)
    /\ sinceAttempt' = Elapse(sinceAttempt, AttemptCap)
    /\ ev' = NoEvent
    /\ UNCHANGED <<pc, attempt, data, resp, connected, connect_message, loc,
                   try_connect, lost_connection, socks, cmdlock>>
    /\ UNCHANGED <<dvars, kvars, mvars>>

Next ==
    \/ \E t \in Users : sendcmd_call(t) \/ senddat(t)
    \/ \E t \in Threads :
         sendcmd_lock(t) \/ sendcmd_send(t) \/ sendcmd_recv(t) \/ sendcmd_timeout(t) \/ sendcmd_repoll(t)
           \/ sendcmd_pollraise(t)
    \/ run_top \/ run_backoff \/ run_connect \/ run_heartbeat \/ run_reply
    \/ run_loop
    \/ ServerReply
    \/ Tick

Spec == Init /\ [][Next]_vars


\* ============================================================ the registry
\* ------------------------------------------------------------------ int()
ValueError == -1

Digits == "0123456789"
IsDigit(c) == \E i \in 1..Len(Digits) : SubSeq(Digits, i, i) = c
DigitValue(c) == CHOOSE n \in 0..9 : SubSeq(Digits, n + 1, n + 1) = c

RECURSIVE ParseDigits(_, _)
ParseDigits(s, acc) ==
    IF s = "" THEN acc
    ELSE ParseDigits(SubSeq(s, 2, Len(s)),
                     10 * acc + DigitValue(SubSeq(s, 1, 1)))

\* int(v): an int is itself, a str of decimal digits is its value, anything
\* else (a letter, an empty argument) raises ValueError.
py_int(v) ==
    IF v[1] = "int" THEN v[2]
    ELSE IF v[2] # "" /\ \A i \in 1..Len(v[2]) : IsDigit(SubSeq(v[2], i, i))
         THEN ParseDigits(v[2], 0)
         ELSE ValueError

\* ------------------------------------------------------------- operations
\* What an operation returned (or the exception it raised) and the devs it
\* left.
Result(ret, ds) == [ret |-> ret, devs |-> ds]

\* self.devs[k] = rec, and self.devs.pop(k, None)
Put(ds, k, rec) == [j \in DOMAIN ds \cup {k} |-> IF j = k THEN rec ELSE ds[j]]
Pop(ds, k) == [j \in DOMAIN ds \ {k} |-> ds[j]]

isdev(ds, devid) == devid \in DOMAIN ds

VirtualIds(ds) == {k \in DOMAIN ds : ds[k].devtype = "virtual"}

ishackrf(devid) == have_hackrf /\ devid = I(HACKRF_DEVNUM)

\* self.hackrf is the bound method, always true: the test is ishackrf's.
occupied(ds, devid) ==
    IF ishackrf(devid) THEN FALSE
    ELSE IF ~isdev(ds, devid) THEN FALSE
    ELSE Truthy(ds[devid].job)

reserved(ds, devid) ==
    IF ishackrf(devid) THEN FALSE
    ELSE IF ~isdev(ds, devid) THEN FALSE
    ELSE ds[devid].reserved

ascii_lowercase == "abcdefghijklmnopqrstuvwxyz"

\* for char in string.ascii_lowercase: the chars in order.
Chars == [i \in 1..Len(ascii_lowercase) |-> S(SubSeq(ascii_lowercase, i, i))]

RECURSIVE next_virtualdev_from(_, _)
next_virtualdev_from(ds, i) ==
    IF i > Len(Chars) THEN NoKey
    ELSE IF Chars[i] \notin DOMAIN ds THEN Chars[i]
         ELSE next_virtualdev_from(ds, i + 1)

next_virtualdevByCount(ds) ==
    IF Cardinality(VirtualIds(ds)) >= Len(Chars) THEN NoKey
    ELSE Chars[Cardinality(VirtualIds(ds)) + 1]

\* The first char of string.ascii_lowercase that is no key of self.devs,
\* or None (NoKey).
next_virtualdev(ds) == next_virtualdev_from(ds, 1)

WithJob(rec, module, cmdline) ==
    [rec EXCEPT !.job = Triple(module, cmdline, strftime)]

occupyUnchecked(ds, devid, module, cmdline, pseudo) ==
    LET n == py_int(devid) IN
    IF n = ValueError
    THEN Result("True", Put(ds, devid, WithJob(NewDev("virtual"), module, cmdline)))
    ELSE IF pseudo
    THEN Result("True", Put(ds, I(n), WithJob(NewDev("pseudo"), module, cmdline)))
    ELSE IF I(n) \notin DOMAIN ds THEN Result("KeyError", ds)
    ELSE Result("True", [ds EXCEPT ![I(n)] = WithJob(@, module, cmdline)])

occupy(ds, devid, module, cmdline, pseudo) ==
    LET n == py_int(devid) IN
    IF n = ValueError
    THEN Result("True", Put(ds, devid, WithJob(NewDev("virtual"), module, cmdline)))
    ELSE IF pseudo
    THEN Result("True", Put(ds, I(n), WithJob(NewDev("pseudo"), module, cmdline)))
    ELSE IF I(n) \notin DOMAIN ds THEN Result("KeyError", ds)
    ELSE IF Truthy(ds[I(n)].job) \/ ~ds[I(n)].usable THEN Result("None", ds)
    ELSE Result("True", [ds EXCEPT ![I(n)] = WithJob(@, module, cmdline)])

freedevKeepsRecord(ds, devid) ==
    IF devid \notin DOMAIN ds THEN Result("KeyError", ds)
    ELSE Result("None", [ds EXCEPT ![devid].job = None])

freedev(ds, devid) ==
    IF devid \notin DOMAIN ds THEN Result("KeyError", ds)
    ELSE IF ds[devid].devtype = "virtual" THEN Result("None", Pop(ds, devid))
    ELSE Result("None", [ds EXCEPT ![devid].job = None])

get_devtype(ds, devid) ==
    LET n == py_int(devid) IN
    IF n = ValueError THEN Result("virtual", ds)
    ELSE IF I(n) \notin DOMAIN ds THEN Result("KeyError", ds)
    ELSE Result(ds[I(n)].devtype, ds)

removedev(ds, devid) ==
    IF isdev(ds, devid)
    THEN Result("None", [ds EXCEPT ![devid].job = OutOfCommission,
                                   ![devid].usable = FALSE])
    ELSE Result("None", ds)

reserve(ds, devid) ==
    IF isdev(ds, devid)
    THEN Result("None", [ds EXCEPT ![devid].reserved = TRUE,
                                   ![devid].job = Reserved])
    ELSE Result("None", ds)

unreserve(ds, devid) ==
    IF devid \notin DOMAIN ds THEN Result("KeyError", ds)
    ELSE Result("None", [ds EXCEPT ![devid].reserved = FALSE,
                                   ![devid].job = None])

usable(ds, devid) ==
    IF devid \notin DOMAIN ds THEN Result("KeyError", ds)
    ELSE Result(IF ds[devid].usable THEN "True" ELSE "False", ds)

get_hackrf_job(ds) ==
    IF ~have_hackrf THEN None ELSE ds[I(HACKRF_DEVNUM)].job

RECURSIVE JobsOf(_, _)
JobsOf(ds, ks) ==
    IF ks = {} THEN <<>>
    ELSE LET k == CHOOSE x \in ks : TRUE IN
         (IF Truthy(ds[k].job) THEN <<ds[k].job>> ELSE <<>>)
             \o JobsOf(ds, ks \ {k})

\* The jobs of self.devs.items() that are truthy (the dict's insertion
\* order is taken as one fixed order of the keys).
running(ds) == JobsOf(ds, DOMAIN ds)

\* devid_to_module: the module of the job on devid, "None", or the
\* ValueError of unpacking a job that is no 3-sequence.
devid_to_module(ds, devid) ==
    IF ~occupied(ds, devid) THEN "None"
    ELSE IF ~ds[devid].usable THEN "None"
    ELSE IF IsTriple(ds[devid].job) THEN ds[devid].job[1]
    ELSE IF Len(ds[devid].job[1]) = 3 THEN SubSeq(ds[devid].job[1], 1, 1)
    ELSE "ValueError"

\* job[i] of a tuple, or of a str (its i-th character).
Index(job, i) ==
    IF IsTriple(job) THEN job[i + 1] ELSE SubSeq(job[1], i + 1, i + 1)

\* connector, lines 160-161: the three formatted fields of one job.
FormatJob(job) ==
    <<Index(job, 0),
      IF Index(job, 1) # NoCmdline THEN Index(job, 1) ELSE "noargs",
      Index(job, 2)>>

RECURSIVE FormatJobs(_)
FormatJobs(jobs) ==
    IF jobs = <<>> THEN <<>>
    ELSE <<FormatJob(Head(jobs))>> \o FormatJobs(Tail(jobs))

NotHackrfJob(ds, job) == job # get_hackrf_job(ds)

\* connector, lines 159-163: data['running'] before json.dumps.
heartbeat_running(ds) ==
    FormatJobs(SelectSeq(running(ds), LAMBDA job : NotHackrfJob(ds, job)))

\* ---------------------------------------------------------- the modules
\* config['modules']: the worker modules of this station, and 'devices',
\* which is also a system module.
loadedmods == {"scanner", "single", "p25rx", "remotetask", "devices"}
system_mods == {"devices", "location", "spectrum", "connector"}

devices(module) ==
    CASE module = "scanner" -> {"hackrf", "virtual"}
      [] module = "single" -> {"rtlsdr"}
      [] module = "snapshot" -> {"hackrf", "virtual"}
      [] module \in {"adsb", "ism433", "tpms"} -> {"rtlsdr"}
      [] module = "p25rx" -> {"pseudo"}
      [] OTHER -> {}

ispseudo(module) == module = "p25rx"
isproxy(module) == module = "remotetask"

\* GrfModuleRemotetask.stop: joins the dispatcher of devid if it has one
\* (found); the registry is not touched, the dispatcher frees its device
\* when it ends.
remotetask_stop(ds, devid, found) ==
    Result(IF found THEN "True" ELSE "False", ds)

\* stop(devid, device_registry) -> bool of the other modules: a stopped
\* worker's device is freed, a refused stop leaves the registry alone.
base_stop(ds, devid, stopped) ==
    IF stopped THEN Result("True", freedev(ds, devid).devs)
    ELSE Result("False", ds)

\* GrfModuleSnapshot.stop (gammarf_snapshot.py:158-162) asks the user to
\* wait and returns False: it stops nothing and frees nothing.
module_stop(ds, module, devid, b) ==
    IF module = "remotetask" THEN remotetask_stop(ds, devid, b)
    ELSE IF module = "snapshot" THEN Result("False", ds)
    ELSE base_stop(ds, devid, b)

\* ------------------------------------------------------------- inputs
MaxRtlsdr == 1
MaxVirtual == 2

\* What the user types after run, stop, reserve and unreserve.
DevArgs == {"0", "1", "a", "9000"}
RunArgs ==
    {<<>>, <<"scanner">>}
        \cup {<<m, d>> : m \in loadedmods \ {"remotetask"}, d \in DevArgs}
        \cup {<<"remotetask", d, "scanner">> : d \in DevArgs}
StopArgs == DevArgs \cup {"", "b"}
ReserveArgs == DevArgs \cup {""}

\* int(args) of each of them.
IntOf == [a \in StopArgs |-> py_int(S(a))]

Last(op, target, ok, ret, id) ==
    [op |-> op, target |-> target, ok |-> ok, ret |-> ret, id |-> id,
     job |-> None, list |-> <<>>]

\* ------------------------------------------------------------- startup
\* exit() with no argument raises SystemExit(None): status 0.
ExitStatus == 0

\* GrfModuleDevices.__init__.  setup_ok: hackrf.setup() succeeded;
\* rtlsdr_devcount: rtlsdr_get_device_count(); hackrf_truthy: bool() of the
\* pylibhackrf.HackRf object that line 157 tests.
GrfModuleDevices_init(setup_ok, rtlsdr_devcount, hackrf_truthy) ==
    /\ phase = "boot"
    /\ have_hackrf' = setup_ok
    /\ LET devidx == IF setup_ok THEN 1 ELSE 0
           hrf == IF setup_ok
                  THEN Put(EmptyDevs, I(HACKRF_DEVNUM),
                           [NewDev("hackrf") EXCEPT !.job = VirtualProvider])
                  ELSE EmptyDevs
           rtl == {I(devidx + i) : i \in 0..(rtlsdr_devcount - 1)}
       IN  IF rtlsdr_devcount = 0 /\ ~hackrf_truthy
           THEN /\ phase' = "exit"
                /\ exit_code' = ExitStatus
                /\ UNCHANGED <<numdevs, devs>>
           ELSE /\ phase' = "up"
                /\ devs' = [k \in DOMAIN hrf \cup rtl |->
                              IF k \in rtl THEN NewDev("rtlsdr") ELSE hrf[k]]
                /\ numdevs' = devidx + rtlsdr_devcount
                /\ UNCHANGED exit_code
    /\ last' = Last("init", NoKey, "notcalled", "None", NoKey)
    /\ UNCHANGED <<vars, kvars, mvars>>

\* ------------------------------------------------------------ commands
\* What cmd_run did: the devs it left, whether the module's run was called
\* and what it returned (ok), and the devid it was called with.
RunOutcome(ds, target, ok, id, job) ==
    [devs |-> ds, target |-> target, ok |-> ok, id |-> id, job |-> job]

run_then_occupy_always(target, id, module, cmdline, pseudo, ok) ==
    RunOutcome(occupy(devs, id, module, cmdline, pseudo).devs, target,
               IF ok THEN "True" ELSE "False", id,
               Triple(module, cmdline, strftime))

\* if loadedmods[module].run(grfstate, devid, cmdline):
\*     devmod.occupy(devid, module, cmdline, pseudo)
run_then_occupy(target, id, module, cmdline, pseudo, ok) ==
    IF ok
    THEN RunOutcome(occupy(devs, id, module, cmdline, pseudo).devs, target,
                    "True", id, Triple(module, cmdline, strftime))
    ELSE RunOutcome(devs, target, "False", id, None)

\* cmd_run(grfstate, args): parsed is args.split(None, 2) (<<>> for no
\* args), ok what loadedmods[module].run returns if it gets called.
cmd_run_outcome(parsed, ok) ==
    LET invalid == RunOutcome(devs, NoKey, "notcalled", NoKey, None)
        module == parsed[1]
        n == IntOf[parsed[2]]
        devid == I(n)
        cmdline == IF Len(parsed) > 2 THEN parsed[3] ELSE NoCmdline
        pseudo == ispseudo(module)
        devtype == IF pseudo THEN "pseudo" ELSE get_devtype(devs, devid).ret
        refuse == RunOutcome(devs, devid, "notcalled", NoKey, None)
        start(id) == run_then_occupy(devid, id, module, cmdline, pseudo, ok)
    IN  IF Len(parsed) = 0 THEN invalid
        ELSE IF module \notin loadedmods \/ module \in system_mods THEN invalid
        ELSE IF Len(parsed) < 2 THEN invalid
        ELSE IF n = ValueError THEN invalid
        ELSE IF pseudo /\ n < PSEUDO_DEVNUM_BASE THEN refuse
        ELSE IF ~pseudo /\ ~isdev(devs, devid) THEN refuse
        ELSE IF ~pseudo /\ usable(devs, devid).ret # "True" THEN refuse
        ELSE IF ~pseudo /\ ~isproxy(module) /\ devtype \notin devices(module)
             THEN refuse
        ELSE IF occupied(devs, devid) THEN refuse
        ELSE IF devtype = "hackrf"
             THEN IF ~have_hackrf THEN refuse
                  ELSE IF next_virtualdev(devs) = NoKey THEN refuse
                  ELSE start(next_virtualdev(devs))
        ELSE start(devid)

cmd_run(parsed, ok) ==
    /\ phase = "up"
    /\ LET out == cmd_run_outcome(parsed, ok) IN
         /\ devs' = out.devs
         /\ last' = [Last("run", out.target, out.ok, "None", out.id)
                        EXCEPT !.job = out.job]
    /\ UNCHANGED <<phase, exit_code, have_hackrf, numdevs>>
    /\ UNCHANGED <<vars, kvars, mvars>>

\* cmd_stop(grfstate, args); b is what the module's stop does.
cmd_stop(args, b) ==
    /\ phase = "up"
    /\ LET n == IntOf[args]
           devid == IF n = ValueError THEN S(args) ELSE I(n)
           module == devid_to_module(devs, devid)
           refuse == /\ devs' = devs
                     /\ last' = Last("stop", devid, "notcalled", "None", NoKey)
       IN  IF args = "" THEN refuse
           ELSE IF ~isdev(devs, devid) THEN refuse
           ELSE IF reserved(devs, devid) THEN refuse
           ELSE IF module = "ValueError"
                THEN /\ devs' = devs
                     /\ last' = Last("stop", devid, "notcalled", "ValueError", NoKey)
           ELSE IF module = "None" THEN refuse
           ELSE LET r == module_stop(devs, module, devid, b) IN
                  /\ devs' = r.devs
                  /\ last' = Last("stop", devid, r.ret, "None", devid)
    /\ UNCHANGED <<phase, exit_code, have_hackrf, numdevs>>
    /\ UNCHANGED <<vars, kvars, mvars>>

\* cmd_reserve(grfstate, args); the "invalid device" message for the
\* hackrf at lines 486-489 is followed by no return.
cmd_reserve(args) ==
    /\ phase = "up"
    /\ LET n == IntOf[args]
           devid == I(n)
           id == IF n = ValueError THEN NoKey ELSE devid
       IN  /\ devs' = IF n = ValueError THEN devs
                      ELSE IF ~isdev(devs, devid) THEN devs
                      ELSE IF occupied(devs, devid) THEN devs
                      ELSE IF reserved(devs, devid) THEN devs
                      ELSE reserve(devs, devid).devs
           /\ last' = Last("reserve", id, "notcalled", "None", NoKey)
    /\ UNCHANGED <<phase, exit_code, have_hackrf, numdevs>>
    /\ UNCHANGED <<vars, kvars, mvars>>

\* cmd_unreserve(grfstate, args)
cmd_unreserve(args) ==
    /\ phase = "up"
    /\ LET n == IntOf[args]
           devid == I(n)
           id == IF n = ValueError THEN NoKey ELSE devid
       IN  /\ devs' = IF n = ValueError THEN devs
                      ELSE IF ~isdev(devs, devid) THEN devs
                      ELSE IF ~reserved(devs, devid) THEN devs
                      ELSE unreserve(devs, devid).devs
           /\ last' = Last("unreserve", id, "notcalled", "None", NoKey)
    /\ UNCHANGED <<phase, exit_code, have_hackrf, numdevs>>
    /\ UNCHANGED <<vars, kvars, mvars>>

\* ------------------------------------------------------------- workers
\* The modules whose worker thread frees its own device when it ends:
\* the remote-task dispatcher (gammarf_remotetask.py:127) and single, when
\* it cannot open its device (gammarf_single.py:70).
SelfFreeing == {"remotetask", "single"}

HoldsJobOf(devid, modules) ==
    /\ devid \in DOMAIN devs
    /\ IsTriple(devs[devid].job)
    /\ devs[devid].job[1] \in modules

worker_freedev(devid) ==
    /\ phase = "up"
    /\ HoldsJobOf(devid, SelfFreeing)
    /\ devs' = freedev(devs, devid).devs
    /\ last' = Last("worker_freedev", devid, "notcalled", "None", devid)
    /\ UNCHANGED <<phase, exit_code, have_hackrf, numdevs>>
    /\ UNCHANGED <<vars, kvars, mvars>>

\* gammarf_single.py:96-100: the worker could not close its device.
worker_removedev(devid) ==
    /\ phase = "up"
    /\ HoldsJobOf(devid, {"single"})
    /\ devs' = removedev(devs, devid).devs
    /\ last' = Last("worker_removedev", devid, "notcalled", "None", devid)
    /\ UNCHANGED <<phase, exit_code, have_hackrf, numdevs>>
    /\ UNCHANGED <<vars, kvars, mvars>>

\* The connector thread builds the running list of a heartbeat.
run_heartbeat_running ==
    /\ phase = "up"
    /\ last' = [Last("heartbeat", NoKey, "notcalled", "None", NoKey)
                  EXCEPT !.list = heartbeat_running(devs)]
    /\ UNCHANGED <<phase, exit_code, have_hackrf, numdevs, devs>>
    /\ UNCHANGED <<vars, kvars, mvars>>

DevNext ==
    \/ \E setup_ok \in BOOLEAN, rtlsdr_devcount \in 0..MaxRtlsdr,
          hackrf_truthy \in BOOLEAN :
         GrfModuleDevices_init(setup_ok, rtlsdr_devcount, hackrf_truthy)
    \/ \E parsed \in RunArgs, ok \in BOOLEAN :
         cmd_run(parsed, ok) /\ Cardinality(VirtualIds(devs')) <= MaxVirtual
    \/ \E args \in StopArgs, b \in BOOLEAN : cmd_stop(args, b)
    \/ \E args \in ReserveArgs : cmd_reserve(args)
    \/ \E args \in ReserveArgs : cmd_unreserve(args)
    \/ \E devid \in DOMAIN devs : worker_freedev(devid)
    \/ \E devid \in DOMAIN devs : worker_removedev(devid)
    \/ run_heartbeat_running

\* The registry under the kernel's commands and the workers.
DevSpec == Init /\ [][DevNext]_<<vars, dvars, kvars, mvars>>

\* ------------------------------------------------- direct calls
\* A module calls one operation of the registry with a devid of its own
\* choice; the model follows the program up to such a call and not beyond.
ApiOps == {"occupy", "freedev", "unreserve", "usable", "get_devtype"}
Called == last.op \in ApiOps

ProbeIds == {I(0), I(1), I(7), S("a"), S("b"), I(9000)}
ProbeJobs == {<<"scanner", NoCmdline>>, <<"single", "100M">>}

api_call(op, devid, r) ==
    /\ phase = "up"
    /\ ~Called
    /\ devs' = r.devs
    /\ last' = Last(op, devid, "notcalled", r.ret, devid)
    /\ UNCHANGED <<phase, exit_code, have_hackrf, numdevs>>
    /\ UNCHANGED <<vars, kvars, mvars>>

api_occupy(devid, module, cmdline, pseudo) ==
    /\ phase = "up"
    /\ ~Called
    /\ LET r == occupy(devs, devid, module, cmdline, pseudo) IN
         /\ devs' = r.devs
         /\ last' = [Last("occupy", devid, "notcalled", r.ret, devid)
                        EXCEPT !.job = Triple(module, cmdline, strftime)]
    /\ UNCHANGED <<phase, exit_code, have_hackrf, numdevs>>
    /\ UNCHANGED <<vars, kvars, mvars>>

api_freedev(devid) == api_call("freedev", devid, freedev(devs, devid))
api_unreserve(devid) == api_call("unreserve", devid, unreserve(devs, devid))
api_usable(devid) == api_call("usable", devid, usable(devs, devid))
api_get_devtype(devid) == api_call("get_devtype", devid, get_devtype(devs, devid))

ApiNext ==
    \/ ~Called /\ DevNext
    \/ \E devid \in ProbeIds, j \in ProbeJobs :
         api_occupy(devid, j[1], j[2], py_int(devid) >= PSEUDO_DEVNUM_BASE)
    \/ \E devid \in ProbeIds : api_freedev(devid)
    \/ \E devid \in ProbeIds : api_unreserve(devid)
    \/ \E devid \in ProbeIds : api_usable(devid)
    \/ \E devid \in ProbeIds : api_get_devtype(devid)

\* The registry under the commands, the workers and one direct call.
ApiSpec == Init /\ [][ApiNext]_<<vars, dvars, kvars, mvars>>

\* ------------------------------------------------- many virtual slots
\* The registries that n successful runs of remotetask on the hackrf and
\* the end of at most one of their dispatchers leave: the first n letters
\* but one (hole; 0 for none) hold a remotetask job.
FilledDevs(n, hole) ==
    [k \in {I(HACKRF_DEVNUM)} \cup {Chars[i] : i \in (1..n) \ {hole}} |->
        IF k = I(HACKRF_DEVNUM)
        THEN [NewDev("hackrf") EXCEPT !.job = VirtualProvider]
        ELSE WithJob(NewDev("virtual"), "remotetask", "scanner")]

VirtInit ==
    /\ \E n \in 0..Len(Chars), hole \in 0..Len(Chars) :
         /\ hole <= n
         /\ devs = FilledDevs(n, hole)
    /\ phase = "up"
    /\ exit_code = -1
    /\ have_hackrf = TRUE
    /\ numdevs = 1
    /\ last = NoLast
    /\ connector_init
    /\ kernel_boot
    /\ config = NoConfig
    /\ modules_boot

\* One command, or the end of one dispatcher, in such a registry.
VirtNext ==
    \/ \E parsed \in RunArgs, ok \in BOOLEAN : last.op = "none" /\ cmd_run(parsed, ok)
    \/ \E args \in StopArgs, b \in BOOLEAN : last.op = "none" /\ cmd_stop(args, b)
    \/ \E devid \in DOMAIN devs : last.op = "none" /\ worker_freedev(devid)

VirtSpec == VirtInit /\ [][VirtNext]_<<vars, dvars, kvars, mvars>>


\* ================================================================ claims
AuthFailures == {"unauthorized", "invalid_station"}
AuthReasons == {"station unauthorized", "invalid station"}
ErrorResults == {"txerror", "rxerror", "noresp"}
DecodedReplies == Replies \ {"garbage"}

\* C1: no two threads are inside a command exchange of sendcmd at once,
\* the thread inside holds the command mutex, and a facade caller's request
\* never goes out while the heartbeat's exchange is under way.
C1_MutualExclusion ==
    /\ \A t, u \in Threads :
         (pc[t] \in InExchange /\ pc[u] \in InExchange) => t = u
    /\ \A t \in Threads : pc[t] \in InExchange => cmdlock = t
    /\ (ev.kind = "sent" /\ ev.t \in Users) => pc["conn"] \notin InExchange

\* A facade caller waits for the mutex while the heartbeat awaits its reply.
C1_Witness ==
    /\ pc["conn"] = "poll"
    /\ \E t \in Users : pc[t] = "enter"

\* C2: a request goes out on the command socket only when no earlier request
\* of that socket is outstanding: the socket is fresh, or the reply to its
\* last request has been received.  A request that ended without a reply
\* leaves the socket outstanding until run replaces it.
C2_PingPong == [][ev'.kind = "sent" => cmdsock = "ready"]_vars

\* A heartbeat goes out after a lost connection (on the socket the
\* reconnect created).
C2_Witness == ev.kind = "sent" /\ ev.t = "conn" /\ lost_connection

\* C3 (as claimed): a sendcmd call that passes the connected check returns a
\* decoded reply or, with the connector Disconnected, one of the three
\* errors.
C3_ReplyOrError ==
    (ev.kind = "ret" /\ ev.v # "not_connected") =>
        \/ ev.v \in DecodedReplies
        \/ ev.v \in ErrorResults /\ ~connected

\* C4: a facade caller's sendcmd that finds the connector not Connected
\* returns not_connected at once, sends nothing and leaves the connection
\* state and the sockets alone; and only a heartbeat answered ok makes the
\* connector Connected again.
C4_NotConnected ==
    [][/\ \A t \in Users :
            (pc[t] = "enter" /\ pc'[t] # "enter" /\ ~connected) =>
                /\ ev' = Event("ret", t, "not_connected", NoData)
                /\ UNCHANGED <<connected, connect_message, socks>>
       /\ (~connected /\ connected') =>
            (pc["conn"] = "hbresp" /\ resp \in {"ok", "ok_badmessages"})]_vars

\* After an unauthorized heartbeat a facade caller is refused.
C4_Witness ==
    /\ ev.kind = "ret" /\ ev.t \in Users /\ ev.v = "not_connected"
    /\ connect_message = "station unauthorized"

\* C5: when run has handled a heartbeat's result the connector is Connected
\* exactly if the reply was ok; unauthorized and invalid_station leave their
\* reason in connect_message.
C5_HeartbeatResult ==
    ev.kind = "hbresp" =>
        /\ connected <=> ev.v \in {"ok", "ok_badmessages"}
        /\ ev.v = "unauthorized" => connect_message = "station unauthorized"
        /\ ev.v = "invalid_station" => connect_message = "invalid station"

C5_Witness == ev.kind = "hbresp" /\ ev.v = "invalid_station" /\ ~connected

\* C6 (as claimed): while an authentication failure is the connector's
\* reason, run makes no connection attempt and calls no heartbeat.
C6_Terminal ==
    [][(connect_message \in AuthReasons) =>
         (pc'["conn"] # "create" /\ pc'["conn"] # "enter")]_vars

\* C6 (amended): an authentication failure leaves the connector Disconnected
\* with its reason and run in its loop; the reconnect wait that follows
\* every disconnect, this one included, always ends in a new connection
\* attempt.
C6_AuthFailureRetries ==
    [][/\ (ev'.kind = "hbresp" /\ ev'.v \in AuthFailures) =>
            /\ ~connected' /\ connect_message' \in AuthReasons
            /\ pc'["conn"] = "loopsleep"
       /\ (connect_message \in AuthReasons /\ pc["conn"] = "top"
             /\ pc'["conn"] # "top") => pc'["conn"] = "backoff"
       /\ (pc["conn"] = "backoff" /\ pc'["conn"] # "backoff") =>
            pc'["conn"] = "create"]_vars

\* The reconnect wait after an unauthorized heartbeat is over: run is about
\* to announce the reconnect with that reason and to connect again.
C6_Witness ==
    /\ pc["conn"] = "backoff" /\ timer["conn"] = 0
    /\ connect_message = "station unauthorized" /\ ~connected

\* C7 (as claimed): Connected, the next heartbeat goes out between 10 s and
\* 11 s after the last successful one, and every connection attempt that
\* succeeds is followed at once by a heartbeat.
C7_Periodic ==
    [][/\ (ev'.kind = "sent" /\ ev'.t = "conn" /\ ~try_connect /\ connected)
            => (sinceHB >= HEARTBEAT_INT
                  /\ sinceHB <= HEARTBEAT_INT + TicksPerSecond)
       /\ (pc["conn"] = "hbcheck" /\ try_connect /\ pc'["conn"] # "hbcheck")
            => pc'["conn"] = "enter"]_vars

\* C7 (amended): a heartbeat that does not follow a connection attempt is
\* never called or sent before 10 s have passed since the last successful
\* one; run calls the heartbeat in every iteration that finds a location
\* fix and either a connection attempt just made or those 10 s elapsed.
C7_NotBeforeInterval ==
    [][/\ ((ev'.kind = "sent" /\ ev'.t = "conn")
             \/ (pc["conn"] = "hbcheck" /\ pc'["conn"] = "enter"))
            => (try_connect \/ sinceHB >= 10 * TicksPerSecond)
       /\ (pc["conn"] = "hbcheck" /\ pc'["conn"] # "hbcheck") =>
            (pc'["conn"] = "enter" <=>
               (loc /\ (try_connect \/ (sinceHB # -1
                           /\ sinceHB >= 10 * TicksPerSecond))))]_vars

\* A periodic heartbeat goes out more than 11 s after the last success.
C7_Witness ==
    /\ ev.kind = "sent" /\ ev.t = "conn" /\ ~try_connect
    /\ sinceHB > HEARTBEAT_INT + TicksPerSecond

\* C8: at least 5 s lie between a connection attempt and the one before it.
C8_ReconnectFloor ==
    [][(pc["conn"] = "create" /\ pc'["conn"] # "create") =>
         (sinceAttempt = -1 \/ sinceAttempt >= 5 * TicksPerSecond)]_vars

\* A second or later connection attempt has been made.
C8_Witness == ev.kind = "attempt" /\ lost_connection

\* C9 (as claimed): senddat returns without raising; when it cannot send
\* (not Connected, no fix, send failure) the payload is dropped.
C9_NeverRaises == ev.kind = "dat" => ev.v \in {"sent", "dropped", "notconnected"}

\* C10: every message put on the command or the data socket carries a rand
\* of 8 characters and, as sign, the first 12 hex digits of
\* md5(station_pass || rand) of that rand.
C10_Signed ==
    (ev.kind = "sent" \/ (ev.kind = "dat" /\ ev.v = "sent")) =>
        /\ Len(ev.msg.rand) = 8
        /\ Len(ev.msg.sign) = 12
        /\ ev.msg.sign = SubSeq(Md5HexDigest(station_pass \o ev.msg.rand), 1, 12)

\* A data message goes out with the second nonce and its sign.
C10_Witness ==
    /\ ev.kind = "dat" /\ ev.v = "sent" /\ ev.msg.rand = "0f1e2d3c"
    /\ ev.msg.sign = "33f59ed7991d"

\* ================================================ claims on the registry
HackrfId == I(HACKRF_DEVNUM)
ModuleJobs == {j \in {devs[k].job : k \in DOMAIN devs} : IsTriple(j)}
LowercaseLetters ==
    {"a", "b", "c", "d", "e", "f", "g", "h", "i", "j", "k", "l", "m",
     "n", "o", "p", "q", "r", "s", "t", "u", "v", "w", "x", "y", "z"}

\* C11: in every reachable state each device record holds at most one job
\* (nothing, one text or one module job), and the wide-band record holds
\* its sentinel "Virtual Provider" and nothing else: no module job, no
\* other text, no reservation.
C11_WideBandKeepsSentinel ==
    phase = "up" =>
      /\ \A k \in DOMAIN devs : Len(devs[k].job) \in {0, 1, 3}
      /\ have_hackrf =>
           /\ devs[HackrfId].job = VirtualProvider
           /\ ~devs[HackrfId].reserved


InRunning(ds, job) == \E i \in 1..Len(running(ds)) : running(ds)[i] = job

\* C12 as stated: a call of occupy with the wide-band id, module m and
\* argline a allocates the first unused letter slot, records (m, a, start
\* time) there and returns the new id, so that running() contains the job.
C12_OccupyWideAllocates ==
    [][(last'.op = "occupy" /\ have_hackrf /\ last'.target = HackrfId)
          => /\ next_virtualdev(devs) \in DOMAIN devs'
             /\ devs'[next_virtualdev(devs)].job = last'.job
             /\ InRunning(devs', last'.job)]_<<vars, dvars, kvars, mvars>>

\* C12 amended: occupy called with the wide-band id is refused (it returns
\* None and changes nothing); it is the run command that, for the wide-band
\* id, takes the first unused letter from next_virtualdev and calls occupy
\* with that letter.  occupy with a letter id records (m, a, start time) in
\* a virtual record under that letter and returns True, so that running()
\* contains the job; freedev of a live virtual id removes its record.
C12_RunAllocatesVirtual ==
    [][/\ (last'.op = "occupy" /\ have_hackrf /\ last'.target = HackrfId)
            => /\ last'.ret = "None"
               /\ devs' = devs
       /\ (last'.op = "occupy" /\ last'.target[1] = "str")
            => /\ last'.ret = "True"
               /\ DOMAIN devs' = DOMAIN devs \cup {last'.target}
               /\ devs'[last'.target].devtype = "virtual"
               /\ devs'[last'.target].job = last'.job
               /\ InRunning(devs', last'.job)
       /\ (last'.op = "run" /\ have_hackrf /\ last'.target = HackrfId
             /\ last'.ok = "True")
            => /\ last'.id = next_virtualdev(devs)
               /\ last'.id \notin DOMAIN devs
               /\ last'.id[2] \in LowercaseLetters
               /\ devs'[last'.id].devtype = "virtual"
               /\ devs'[last'.id].job = last'.job
               /\ InRunning(devs', last'.job)
       /\ (last'.op = "freedev" /\ last'.target \in VirtualIds(devs))
            => /\ last'.ret = "None"
               /\ last'.target \notin DOMAIN devs'
               /\ devs' = Pop(devs, last'.target)]_<<vars, dvars, kvars, mvars>>

\* A virtual record that a run on the wide-band id made was freed by a
\* direct call of freedev and is gone.
C12_Witness ==
    /\ have_hackrf
    /\ last.op = "freedev"
    /\ last.target[1] = "str"
    /\ last.ret = "None"
    /\ last.target \notin DOMAIN devs


\* The first letter of a..z that is no id of ds, NoKey if there is none.
FirstUnusedLetter(ds) ==
    IF \A i \in 1..Len(Chars) : Chars[i] \in DOMAIN ds THEN NoKey
    ELSE Chars[CHOOSE i \in 1..Len(Chars) :
                  /\ Chars[i] \notin DOMAIN ds
                  /\ \A j \in 1..(i - 1) : Chars[j] \in DOMAIN ds]

\* C13: at all times the id of every live virtual slot is one lowercase
\* letter, and a run on the wide-band id never hands out an id that is
\* live, so no two live slots share one; next_virtualdev returns the first
\* letter of a..z that is no id of the registry, a freed letter before any
\* later one, and the null marker when all 26 letters are in use, in which
\* case no slot is made.
C13_VirtualIdsAreFirstFreeLetters ==
    /\ [](/\ \A k \in VirtualIds(devs) :
                k[1] = "str" /\ k[2] \in LowercaseLetters
          /\ \A k \in DOMAIN devs \ VirtualIds(devs) : k[1] = "int"
          /\ next_virtualdev(devs) = FirstUnusedLetter(devs)
          /\ (Cardinality(VirtualIds(devs)) = Len(Chars)) = (next_virtualdev(devs) = NoKey))
    /\ [][(last'.op = "run" /\ last'.target = HackrfId)
            => IF next_virtualdev(devs) = NoKey
               THEN last'.ok = "notcalled" /\ devs' = devs
               ELSE /\ last'.ok \in {"True", "False"}
                       => /\ last'.id = FirstUnusedLetter(devs)
                          /\ last'.id \notin DOMAIN devs
                    /\ VirtualIds(devs') \subseteq VirtualIds(devs) \cup {FirstUnusedLetter(devs)}
                    /\ \A k \in VirtualIds(devs) : devs'[k] = devs[k]]_<<vars, dvars, kvars, mvars>>

\* The letter a was freed while b stayed live, and the next run on the
\* wide-band id got a again.
C13_Witness ==
    /\ last.op = "run"
    /\ last.target = HackrfId
    /\ last.ok = "True"
    /\ last.id = S("a")
    /\ S("a") \in VirtualIds(devs)
    /\ S("b") \in VirtualIds(devs)


PhysicalIds(ds) == {k \in DOMAIN ds : ds[k].devtype \in {"hackrf", "rtlsdr"}}

C15_ReservedExcludesJob ==
    /\ [](phase = "up" =>
            \A k \in DOMAIN devs : devs[k].reserved => devs[k].job = Reserved)
    /\ [][/\ (last'.op = "reserve" /\ last'.target \in DOMAIN devs
                /\ IsTriple(devs[last'.target].job))
               => devs' = devs
          /\ (last'.op \in {"run", "stop"} /\ last'.target \in DOMAIN devs
                /\ devs[last'.target].reserved)
               => last'.ok = "notcalled" /\ devs' = devs
          /\ (last'.op = "unreserve" /\ last'.target \in DOMAIN devs
                /\ devs[last'.target].reserved)
               => /\ ~devs'[last'.target].reserved
                  /\ devs'[last'.target].job = None]_<<vars, dvars, kvars, mvars>>


\* C16: reservation of the wide-band device is refused: after a reserve
\* command that names the wide-band id the wide-band record is not reserved
\* and its job is still the provider sentinel.
C16_WideBandReserveRefused ==
    [][(last'.op = "reserve" /\ have_hackrf /\ last'.target = HackrfId)
          => /\ ~devs'[HackrfId].reserved
             /\ devs'[HackrfId].job = VirtualProvider]_<<vars, dvars, kvars, mvars>>

\* C17: running() returns exactly the (module, argline, started_at) triples
\* of the devices on which a module runs, never the wide-band sentinel, a
\* reservation sentinel or an out-of-commission marker, and the running
\* list of a heartbeat holds the formatted triples of module jobs only.
C17_RunningOnlyModuleJobs ==
    phase = "up" =>
      /\ \A i \in 1..Len(running(devs)) : IsTriple(running(devs)[i])
      /\ \A j \in ModuleJobs : InRunning(devs, j)
      /\ last.op = "heartbeat" =>
           \A i \in 1..Len(last.list) :
              \E j \in ModuleJobs : last.list[i] = FormatJob(j)

Raised == {"KeyError", "ValueError"}

\* C18: an operation of the registry that is given an id naming no device,
\* or that must refuse, returns a refusal or null flag and raises nothing:
\* freedev, unreserve, usable, get_devtype and occupy called with an
\* unknown id do not throw.
C18_NoOperationRaises ==
    Called => last.ret \notin Raised

\* C19: when enumeration finds neither the wide-band device nor any
\* narrow-band device the process is ended at startup with a non-zero exit
\* code and does not go on with an empty registry; when only the wide-band
\* device is absent the process goes on, with have_hackrf false.
C19_ExitsWithoutDevices ==
    (phase # "boot" /\ ~have_hackrf) =>
        IF PhysicalIds(devs) = {}
        THEN phase = "exit" /\ exit_code > 0
        ELSE phase = "up"

\* C20: a run command records a job only if the module's own run returned
\* success, and a failed run leaves the registry as it was.  A successful
\* run on the wide-band id records the job in a fresh virtual slot, a when
\* no slot is live and b when only a is, and leaves the wide-band record
\* as it was and unoccupied.
C20_JobOnlyOnModuleSuccess ==
    [][last'.op = "run"
         => /\ devs' # devs => last'.ok = "True"
            /\ last'.ok = "False" => last'.job = None
            /\ last'.ok = "True"
                 => /\ IsTriple(last'.job)
                    /\ last'.id \in DOMAIN devs'
                    /\ devs'[last'.id].job = last'.job
                    /\ \A k \in DOMAIN devs \ {last'.id} :
                          k \in DOMAIN devs' /\ devs'[k] = devs[k]
            /\ (last'.ok = "True" /\ have_hackrf /\ last'.target = HackrfId)
                 => /\ last'.id \in VirtualIds(devs') \ DOMAIN devs
                    /\ devs'[HackrfId] = devs[HackrfId]
                    /\ ~occupied(devs', HackrfId)
                    /\ VirtualIds(devs) = {} => last'.id = S("a")
                    /\ VirtualIds(devs) = {S("a")} => last'.id = S("b")]_<<vars, dvars, kvars, mvars>>

\* A second run on the wide-band id succeeded while slot a was live and
\* its job is in slot b.
C20_Witness ==
    /\ last.op = "run"
    /\ last.ok = "True"
    /\ have_hackrf
    /\ last.target = HackrfId
    /\ last.id = S("b")
    /\ S("a") \in VirtualIds(devs)
    /\ devs[S("b")].job = last.job


\* ======================================== claims on the kernel's commands
\* C21: the run command starts no worker and records no job when the
\* module is a system module or is not loaded, when it is a pseudo module
\* and devid < 9000, when the device id (of a module that is not pseudo)
\* is unknown, when the device is unusable, reserved or holds a module job,
\* or when the module is no proxy and the device's type is not among the
\* module's kinds: the module's run is not called and the registry is as
\* it was.
C21_RunRefusals ==
    phase = "up" =>
      \A parsed \in RunArgs \cup {<<"nosuch", "1">>}, ok \in BOOLEAN :
        LET module == parsed[1]
            devid == I(IntOf[parsed[2]])
            known == devid \in DOMAIN devs
            refused == /\ cmd_run_outcome(parsed, ok).ok = "notcalled"
                       /\ cmd_run_outcome(parsed, ok).devs = devs
        IN  Len(parsed) >= 2 =>
              /\ (module \in system_mods \/ module \notin loadedmods) => refused
              /\ (IntOf[parsed[2]] # ValueError /\ module \in loadedmods) =>
                   /\ (ispseudo(module) /\ devid[2] < PSEUDO_DEVNUM_BASE) => refused
                   /\ (~ispseudo(module) /\ ~known) => refused
                   /\ (known /\ ~devs[devid].usable) => refused
                   /\ (known /\ devs[devid].reserved) => refused
                   /\ (known /\ IsTriple(devs[devid].job)) => refused
                   /\ (known /\ ~isproxy(module) /\ ~ispseudo(module)
                         /\ devs[devid].devtype \notin devices(module)) => refused


\* ================================================= the kernel's startup
\* ModObj.commands(): the (name, handler) tuples a module contributes; the
\* handler is a bound method of this instance of the module.  devices
\* (gammarf_devices.py:578-582), remotetask (gammarf_remotetask.py:222-223);
\* the other modules contribute none.
module_commands(module, instance) ==
    LET names == CASE module = "devices" -> <<"devs", "reserve", "stop", "unreserve">>
                   [] module = "remotetask" -> <<"remotetask">>
                   [] OTHER -> <<>>
    IN  [i \in 1..Len(names) |-> <<names[i], module \o "." \o instance>>]

\* for cmd in modcmds: if cmd in commands: raise Exception(...)
\*                     commands[cmd[0]] = cmd[1]
\* cmd is the tuple, the keys of commands are names.
RECURSIVE register(_, _, _)
register(table, modcmds, i) ==
    IF i > Len(modcmds) THEN [ret |-> "None", commands |-> table]
    ELSE IF modcmds[i] \in DOMAIN table
         THEN [ret |-> "Exception", commands |-> table]
    ELSE register(Put(table, S(modcmds[i][1]), modcmds[i][2]), modcmds, i + 1)

\* GrfState.__init__, lines 104-116: the commands of the system modules;
\* an exception here ends the process.
GrfState_sysmods ==
    /\ phase = "up"
    /\ main.at = "GrfState"
    /\ LET r == register(commands, module_commands("devices", "system"), 1) IN
         /\ commands' = r.commands
         /\ main' = [main EXCEPT !.at = IF r.ret = "Exception" THEN "raised"
                                         ELSE "modules",
                                  !.todo = loadedmods]
         /\ last' = Last("register", NoKey, "notcalled", r.ret, NoKey)
    /\ UNCHANGED <<phase, exit_code, have_hackrf, numdevs, devs, config, rt>>
    /\ UNCHANGED <<vars, mvars>>

\* GrfState.__init__, lines 118-134: one module of config['modules'], in
\* the order of a set; an exception is caught and reported as a warning.
GrfState_module(module) ==
    /\ main.at = "modules"
    /\ module \in main.todo
    /\ LET r == register(commands, module_commands(module, "loaded"), 1) IN
         /\ commands' = r.commands
         /\ last' = Last("register", NoKey, "notcalled", r.ret, NoKey)
    /\ main' = [main EXCEPT !.todo = @ \ {module}]
    /\ UNCHANGED <<phase, exit_code, have_hackrf, numdevs, devs, config, rt>>
    /\ UNCHANGED <<vars, mvars>>

\* '{}'.format(n) of an int n >= 0
RECURSIVE str(_)
str(n) ==
    IF n < 10 THEN SubSeq(Digits, n + 1, n + 1)
    ELSE str(n \div 10) \o SubSeq(Digits, (n % 10) + 1, (n % 10) + 1)

\* s.split(sep) for a one-character sep: the pieces between the seps.
RECURSIVE split(_, _, _)
split(s, sep, piece) ==
    IF s = "" THEN <<piece>>
    ELSE IF SubSeq(s, 1, 1) = sep
         THEN <<piece>> \o split(SubSeq(s, 2, Len(s)), sep, "")
    ELSE split(SubSeq(s, 2, Len(s)), sep, piece \o SubSeq(s, 1, 1))

\* The words of s: the pieces that are not empty.
Words(s) == SelectSeq(split(s, " ", ""), LAMBDA w : w # "")

\* s with its first n words and the blanks around them taken off.
RECURSIVE after_words(_, _, _)
after_words(s, n, inword) ==
    IF s = "" THEN ""
    ELSE IF SubSeq(s, 1, 1) = " "
         THEN after_words(SubSeq(s, 2, Len(s)), IF inword THEN n - 1 ELSE n, FALSE)
    ELSE IF n = 0 THEN s
    ELSE after_words(SubSeq(s, 2, Len(s)), n, TRUE)

\* try: module, args = cmdline.split(None, 1)
\* except ValueError: module = cmdline.strip(); args = None
\* (a cmdline without trailing blanks, as configparser delivers it)
module_args(cmdline) ==
    LET rest == after_words(cmdline, 1, FALSE) IN
    IF rest # "" THEN [module |-> Words(cmdline)[1], args |-> rest, none |-> FALSE]
    ELSE [module |-> IF Words(cmdline) = <<>> THEN "" ELSE Words(cmdline)[1],
          args |-> NoCmdline, none |-> TRUE]

\* dev.serial: the USB serial of the stick with index rtl_devid (lines
\* 161-177); None (here "") for the hackrf.
serial(devid) ==
    IF devs[devid].devtype # "rtlsdr" THEN ""
    ELSE "000" \o str(devid[2] + 1 - (IF have_hackrf THEN 1 ELSE 0))

\* startup_tasks, lines 164-188: the (cmdline, devid) pairs of
\* startup_virtual and of the sticks' serials, in the order of self.devs.
RECURSIVE serial_jobs(_)
serial_jobs(n) ==
    IF n >= numdevs THEN <<>>
    ELSE (IF serial(I(n)) # "" /\ ("startup_" \o serial(I(n))) \in DOMAIN config.startup
          THEN <<<<config.startup["startup_" \o serial(I(n))], I(n)>>>>
          ELSE <<>>) \o serial_jobs(n + 1)

startup_jobs ==
    (IF have_hackrf /\ "startup_virtual" \in DOMAIN config.startup
        /\ config.startup["startup_virtual"] # ""
     THEN LET virtlist == split(config.startup["startup_virtual"], ",", "") IN
          [i \in 1..Len(virtlist) |-> <<virtlist[i], I(HACKRF_DEVNUM)>>]
     ELSE <<>>) \o serial_jobs(0)

\* main(), lines 152-154, and startup_tasks up to its loop over jobs.
startup_tasks_jobs ==
    /\ main.at = "modules"
    /\ main.todo = {}
    /\ main' = [main EXCEPT !.at = "startup_tasks", !.jobs = startup_jobs]
    /\ UNCHANGED <<dvars, config, commands, rt>>
    /\ UNCHANGED <<vars, mvars>>

\* startup_tasks, lines 190-218: one (cmdline, devid) of jobs; ok is what
\* the module's run returns if it gets called.
startup_task(ok) ==
    /\ main.at = "startup_tasks"
    /\ main.jobs # <<>>
    /\ LET cmdline == Head(main.jobs)[1]
           devid == Head(main.jobs)[2]
           module == module_args(cmdline).module
           devtype == get_devtype(devs, devid).ret
           skip == RunOutcome(devs, devid, "notcalled", NoKey, None)
           out == IF module \in system_mods \/ module \notin loadedmods THEN skip
                  ELSE IF usable(devs, devid).ret # "True" THEN skip
                  ELSE IF ~isproxy(module) /\ devtype \notin devices(module) THEN skip
                  ELSE IF devtype = "hackrf"
                       THEN IF next_virtualdev(devs) = NoKey THEN skip
                            ELSE run_then_occupy(devid, next_virtualdev(devs),
                                                 module, cmdline, FALSE, ok)
                  ELSE run_then_occupy(devid, devid, module, cmdline, FALSE, ok)
       IN  /\ devs' = out.devs
           /\ last' = [Last("startup", out.target, out.ok, "None", out.id)
                          EXCEPT !.job = out.job]
    /\ main' = [main EXCEPT !.jobs = Tail(@)]
    /\ UNCHANGED <<phase, exit_code, have_hackrf, numdevs, config, commands, rt>>
    /\ UNCHANGED <<vars, mvars>>

\* startup_tasks returns; pseudo_startup_tasks, line 226.
pseudo_startup_tasks ==
    /\ main.at = "startup_tasks"
    /\ main.jobs = <<>>
    /\ main' = [main EXCEPT !.at = "pseudo_startup_tasks",
                             !.devid = PSEUDO_DEVNUM_BASE]
    /\ UNCHANGED <<dvars, config, commands, rt>>
    /\ UNCHANGED <<vars, mvars>>

\* pseudo_startup_tasks, lines 227-249: one pass of while True.
pseudo_startup_task(ok) ==
    /\ main.at = "pseudo_startup_tasks"
    /\ LET key == "startup_" \o str(main.devid)
           devid == I(main.devid)
           ma == module_args(config.startup[key])
       IN  IF key \notin DOMAIN config.startup
           THEN /\ main' = [main EXCEPT !.at = "cmdloop"]
                /\ last' = Last("pseudo_startup", devid, "notcalled", "KeyError", NoKey)
                /\ UNCHANGED devs
           ELSE IF ma.module \in system_mods \/ ma.module \notin loadedmods
           THEN /\ last' = Last("pseudo_startup", devid, "notcalled", "continue", NoKey)
                /\ UNCHANGED <<main, devs>>
           ELSE LET out == run_then_occupy(devid, devid, ma.module, ma.args, TRUE, ok) IN
                  /\ devs' = out.devs
                  /\ last' = [Last("pseudo_startup", devid, out.ok, "None", devid)
                                 EXCEPT !.job = out.job]
                  /\ main' = [main EXCEPT !.devid = @ + 1]
    /\ UNCHANGED <<phase, exit_code, have_hackrf, numdevs, config, commands, rt>>
    /\ UNCHANGED <<vars, mvars>>


\* ---------------------------------------------------- the command loop
\* cmdloop, lines 276-288: the system commands, assigned without a test.
builtins ==
    <<"help", "interesting", "interesting_add", "interesting_del", "location",
      "message", "mods", "now", "pwr", "quit", "run", "settings", "stations">>

RECURSIVE assign(_, _, _)
assign(table, names, i) ==
    IF i > Len(names) THEN table
    ELSE assign(Put(table, S(names[i]), "gammarf.cmd_" \o names[i]), names, i + 1)

cmdloop_builtins ==
    /\ main.at = "cmdloop"
    /\ commands' = assign(commands, builtins, 1)
    /\ main' = [main EXCEPT !.at = "prompt"]
    /\ last' = Last("builtins", NoKey, "notcalled", "None", NoKey)
    /\ UNCHANGED <<phase, exit_code, have_hackrf, numdevs, devs, config, rt>>
    /\ UNCHANGED <<vars, mvars>>

\* GrfModuleRemotetask.request(reqline, connector), lines 160-205: rsp is
\* what connector.sendcmd returns, a dict, or <<>> when sendcmd raises.
request(reqline, rsp) ==
    LET args == Words(reqline) IN
    IF reqline = NoCmdline THEN "help"
    ELSE IF Len(args) < 3 THEN "help"
    ELSE IF py_int(S(args[2])) = ValueError THEN "help"
    ELSE IF rsp = <<>> THEN "raised"
    ELSE IF "reply" \notin DOMAIN rsp THEN "KeyError"
    ELSE IF rsp.reply = "ok" THEN "task sent"
    ELSE IF rsp.reply = "task_exists" THEN "task_exists"
    ELSE IF "error" \notin DOMAIN rsp THEN "KeyError"
    ELSE "error sending task"

\* cmdloop, lines 294-328: one pass of while True with the line rawinput;
\* an exception that a handler lets out ends the loop and the main thread.
cmdloop(rawinput, rsp) ==
    /\ main.at = "prompt"
    /\ LET cmdline == Words(rawinput)
           cmd == cmdline[1]
           args == after_words(rawinput, 1, FALSE)
           ret == IF cmdline = <<>> THEN "continue"
                  ELSE IF SubSeq(cmd, 1, 1) = "#" THEN "continue"
                  ELSE IF cmd = "help" THEN "help"
                  ELSE IF cmd = "quit" THEN "SystemExit"
                  ELSE IF S(cmd) \notin DOMAIN commands THEN "bad command"
                  ELSE IF commands[S(cmd)] = "remotetask.loaded"
                       THEN request(args, rsp)
                  ELSE "None"
       IN  /\ main' = [main EXCEPT !.at =
                         IF ret = "SystemExit" THEN "exit"
                         ELSE IF ret \in {"raised", "KeyError"} THEN "raised"
                         ELSE "prompt"]
           /\ last' = Last("cmdloop", NoKey, "notcalled", ret, NoKey)
    /\ UNCHANGED <<phase, exit_code, have_hackrf, numdevs, devs, config, commands, rt>>
    /\ UNCHANGED <<vars, mvars>>

\* ------------------------------------------------------------- inputs
\* The [startup] sections: "-" for a key that is absent.
Configs ==
    {[startup |-> [k \in {k \in DOMAIN f : f[k] # "-"} |-> f[k]]] :
        f \in {[startup_virtual |-> v, startup_0001 |-> s,
                startup_9000 |-> p, startup_9001 |-> q] :
                 v \in {"-", "scanner", "scanner,single"},
                 s \in {"-", "single", "single 100M"},
                 p \in {"-", "p25rx", "p25rx 851M", "nosuch", "devices"},
                 q \in {"-", "p25rx"}}}

\* What the user types at the prompt.
Inputs ==
    {"", "# note", "help", "quit", "bogus", "remotetask",
     "remotetask grf01 x scanner", "remotetask grf01 5 scanner 100M"}

\* What sendcmd gives the remotetask command: a reply of the server, one of
\* sendcmd's own error dicts, or nothing (<<>>) when it raises.
Responses ==
    {[reply |-> "ok"], [reply |-> "task_exists"], [reply |-> "unauthorized"],
     [reply |-> "error", error |-> "noresp"], <<>>}

KernInit ==
    /\ devices_boot
    /\ connector_init
    /\ kernel_boot
    /\ config \in Configs
    /\ modules_boot

KernNext ==
    \/ \E setup_ok \in BOOLEAN, rtlsdr_devcount \in 0..MaxRtlsdr,
          hackrf_truthy \in BOOLEAN :
         GrfModuleDevices_init(setup_ok, rtlsdr_devcount, hackrf_truthy)
    \/ GrfState_sysmods
    \/ \E module \in loadedmods : GrfState_module(module)
    \/ startup_tasks_jobs
    \/ \E ok \in BOOLEAN : startup_task(ok)
    \/ pseudo_startup_tasks
    \/ \E ok \in BOOLEAN : pseudo_startup_task(ok)
    \/ cmdloop_builtins
    \/ \E rawinput \in Inputs, rsp \in Responses : cmdloop(rawinput, rsp)

\* main() from GrfState() to the command loop.
KernSpec == KernInit /\ [][KernNext]_<<vars, dvars, kvars, mvars>>

\* The main thread runs whenever it can take a step.
KernFairSpec == KernSpec /\ WF_<<vars, dvars, kvars, mvars>>(KernNext)


\* ========================================= claims on the kernel's startup
\* C22: registering a command name that is already in the command table is
\* refused and ends the startup: the table is left as it was and the main
\* thread does not go on; no step replaces the handler of a name that is
\* in the table.
C22_DuplicateCommandFatal ==
    [][/\ \A k \in DOMAIN commands :
             k \in DOMAIN commands' /\ commands'[k] = commands[k]
       /\ \A module \in main.todo \ main'.todo :
             (\E i \in 1..Len(module_commands(module, "loaded")) :
                 S(module_commands(module, "loaded")[i][1]) \in DOMAIN commands)
                => main'.at = "raised" /\ commands' = commands]_<<vars, dvars, kvars, mvars>>


\* C23: for an entry startup_<serial> = <module> [args] whose module was
\* run with success on the stick with that serial, the job recorded on the
\* stick is (module, args, time), args being the text after the module
\* name, and None when the entry is the module name alone.
C23_StartupJobHasArgs ==
    [][(last'.op = "startup" /\ last'.ok = "True"
          /\ devs[Head(main.jobs)[2]].devtype = "rtlsdr")
         => /\ last'.target = Head(main.jobs)[2]
            /\ ("startup_" \o serial(last'.target)) \in DOMAIN config.startup
            /\ devs'[last'.target].job =
                 Triple(module_args(Head(main.jobs)[1]).module,
                        module_args(Head(main.jobs)[1]).args,
                        strftime)]_<<vars, dvars, kvars, mvars>>


\* C24: the processing of the pseudo startup entries terminates for every
\* configuration: a pass over a key that is present goes on to the next
\* key, also when its entry names a system module or a module that is not
\* loaded, so that each key is visited once and in increasing order; a
\* pass over a missing key ends the processing, and the processing does
\* end.
C24_PseudoStartupTerminates ==
    /\ [][(main.at = "pseudo_startup_tasks" /\ last'.op = "pseudo_startup")
            => IF ("startup_" \o str(main.devid)) \in DOMAIN config.startup
               THEN /\ main'.at = "pseudo_startup_tasks"
                    /\ main'.devid = main.devid + 1
               ELSE main'.at = "cmdloop"]_<<vars, dvars, kvars, mvars>>
    /\ (main.at = "pseudo_startup_tasks") ~> (main.at = "cmdloop")


\* C25: no failure inside a module or a command handler ends the command
\* loop: after every command but quit the loop reads the next command,
\* and only quit ends it.
C25_OnlyQuitEndsLoop ==
    [][main.at = "prompt"
         => \/ main'.at = "prompt"
            \/ main'.at = "exit" /\ last'.ret = "SystemExit"]_<<vars, dvars, kvars, mvars>>

\* ===================================================== the dispatcher
\* RemoteTaskDispatcher (modules/gammarf_remotetask.py): the thread that
\* run remotetask <devid> <module> starts.  rt.pc is where the thread is:
\* "top" at the test of the outer loop, "get" before the rtask_get
\* exchange, "poll" at the top of the inner loop, "askcancel" before the
\* rtask_askcancel exchange, "sleep" in time.sleep(LOOP_SLEEP), "free" at
\* line 127, "done" after its return and "dead" when an exception ended
\* it.  rt.task: the target's run returned true and its stop has not been
\* called since; rt.elapsed: seconds of sleep since started.

\* LOOP_SLEEP of gammarf_remotetask.py.
REMOTETASK_LOOP_SLEEP == 5

\* The durations the server sends, in seconds.
MaxDuration == 7
Durations == {0, REMOTETASK_LOOP_SLEEP, MaxDuration}

\* config['modules'] with snapshot loaded too.
RtLoadedmods == loadedmods \cup {"snapshot"}

\* run remotetask <devid> [<module>] as the user types it.
RtRunArgs ==
    {<<"remotetask", "0">>}
        \cup {<<"remotetask", d, m>> :
                d \in {"0", "1"},
                m \in {"scanner", "single", "snapshot", "p25rx", "remotetask"}}

\* What sendcmd gives for rtask_get: the server's task (well-formed, with
\* a field missing, with a duration that is no number), none, one of
\* sendcmd's error dicts, or nothing (<<>>) when it raises.
GetResponses ==
    {[reply |-> "ok", duration |-> I(d), from |-> "stn01", taskid |-> "t1",
      params |-> "100M"] : d \in Durations}
        \cup {[reply |-> "ok", duration |-> I(REMOTETASK_LOOP_SLEEP)],
              [reply |-> "ok", duration |-> S("soon"), from |-> "stn01",
               taskid |-> "t1", params |-> "100M"],
              [reply |-> "none"],
              [reply |-> "error", error |-> "noresp"],
              <<>>}

\* What sendcmd gives for rtask_askcancel.
CancelResponses ==
    {[reply |-> "cancel"], [reply |-> "nocancel"],
     [reply |-> "error", error |-> "noresp"], <<>>}

\* GrfModuleRemotetask.run(grfstate, devid, cmdline): TRUE when it started
\* a dispatcher and returned True, FALSE when it returned None.
remotetask_run(devid, cmdline) ==
    IF cmdline = NoCmdline THEN FALSE
    ELSE LET module == Words(cmdline)[1] IN
         /\ module \notin {"remotetask", "tdoa"}
         /\ module \in RtLoadedmods
         /\ module \notin system_mods
         /\ ~ispseudo(module)
         /\ get_devtype(devs, devid).ret \in devices(module)

\* cmd_run of the module remotetask, with the thread that its run starts
\* (one dispatcher at a time).
cmd_run_remotetask(parsed) ==
    /\ phase = "up"
    /\ rt.pc = "none"
    /\ LET cmdline == IF Len(parsed) > 2 THEN parsed[3] ELSE NoCmdline
           called == cmd_run_outcome(parsed, TRUE)
           ok == called.ok = "True" /\ remotetask_run(called.id, cmdline)
           out == cmd_run_outcome(parsed, ok)
       IN  /\ devs' = out.devs
           /\ last' = [Last("run", out.target, out.ok, "None", out.id)
                          EXCEPT !.job = out.job]
           /\ rt' = IF ok
                    THEN [NoDispatcher EXCEPT !.pc = "top", !.devid = out.id,
                                              !.targetmod = Words(cmdline)[1]]
                    ELSE rt
    /\ UNCHANGED <<phase, exit_code, have_hackrf, numdevs>>
    /\ UNCHANGED <<vars, mvars, config, commands, main>>

\* cmd_stop on a device that remotetask holds: GrfModuleRemotetask.stop
\* joins the device's dispatcher, which sets its stoprequest (line 131),
\* and takes it off the workers.
cmd_stop_remotetask(args) ==
    /\ phase = "up"
    /\ LET n == IntOf[args]
           devid == IF n = ValueError THEN S(args) ELSE I(n)
           found == rt.pc # "none" /\ rt.devid = devid /\ ~rt.stoprequest
           r == remotetask_stop(devs, devid, found)
       IN  /\ isdev(devs, devid)
           /\ ~reserved(devs, devid)
           /\ devid_to_module(devs, devid) = "remotetask"
           /\ devs' = r.devs
           /\ last' = Last("stop", devid, r.ret, "None", devid)
           /\ rt' = IF found THEN [rt EXCEPT !.stoprequest = TRUE] ELSE rt
    /\ UNCHANGED <<phase, exit_code, have_hackrf, numdevs>>
    /\ UNCHANGED <<vars, mvars, config, commands, main>>

\* Line 57: while not self.stoprequest.isSet()
rt_while ==
    /\ rt.pc = "top"
    /\ rt' = [rt EXCEPT !.pc = IF rt.stoprequest THEN "free" ELSE "get"]
    /\ UNCHANGED <<phase, exit_code, have_hackrf, numdevs, devs, last>>
    /\ UNCHANGED <<vars, mvars, config, commands, main>>

\* Lines 58-72 and 118-121: the rtask_get exchange and what follows it up
\* to the next sleep; ok is what the target's run returns if it is called.
rt_get(rsp, ok) ==
    /\ rt.pc = "get"
    /\ LET at(p) == [rt EXCEPT !.pc = p]
           note(called, ret) == Last("rtask_get", rt.devid, called, ret, rt.devid)
       IN  IF rsp = <<>>
           THEN rt' = at("dead") /\ last' = note("notcalled", "raised")
           ELSE IF rsp.reply # "ok"
           THEN rt' = at("sleep") /\ last' = note("notcalled", rsp.reply)
           ELSE IF \/ ~({"duration", "from", "taskid", "params"} \subseteq DOMAIN rsp)
                   \/ py_int(rsp.duration) = ValueError
           THEN rt' = at("top") /\ last' = note("notcalled", "continue")
           ELSE IF ~ok
           THEN rt' = at("top") /\ last' = note("False", "ok")
           ELSE /\ rt' = [rt EXCEPT !.pc = "poll", !.task = TRUE, !.elapsed = 0,
                                    !.duration = py_int(rsp.duration)]
                /\ last' = note("True", "ok")
    /\ UNCHANGED <<phase, exit_code, have_hackrf, numdevs, devs>>
    /\ UNCHANGED <<vars, mvars, config, commands, main>>

\* Lines 81-94: the two tests at the top of the inner loop; b is what the
\* target's stop does.
rt_poll(b) ==
    /\ rt.pc = "poll"
    /\ IF rt.elapsed >= rt.duration \/ rt.stoprequest
       THEN LET r == module_stop(devs, rt.targetmod, rt.devid, b) IN
              /\ devs' = r.devs
              /\ rt' = [rt EXCEPT !.pc = "top", !.task = FALSE]
              /\ last' = Last("poll", rt.devid, r.ret,
                              IF rt.elapsed >= rt.duration THEN "finished"
                              ELSE "stoprequest", rt.devid)
       ELSE /\ devs' = devs
            /\ rt' = [rt EXCEPT !.pc = "askcancel"]
            /\ last' = Last("poll", rt.devid, "notcalled", "None", rt.devid)
    /\ UNCHANGED <<phase, exit_code, have_hackrf, numdevs>>
    /\ UNCHANGED <<vars, mvars, config, commands, main>>

\* As if an error reply stopped the task too.
canceled_or_error(reply) == reply \in {"cancel", "error"}

\* Line 101: the reply that stops the task.
canceled(reply) == reply = "cancel"

\* Lines 96-114: the rtask_askcancel exchange.
rt_askcancel(rsp, b) ==
    /\ rt.pc = "askcancel"
    /\ IF rsp = <<>>
       THEN /\ devs' = devs
            /\ rt' = [rt EXCEPT !.pc = "dead"]
            /\ last' = Last("rtask_askcancel", rt.devid, "notcalled", "raised",
                            rt.devid)
       ELSE IF canceled(rsp.reply)
       THEN LET r == module_stop(devs, rt.targetmod, rt.devid, b) IN
              /\ devs' = r.devs
              /\ rt' = [rt EXCEPT !.pc = "top", !.task = FALSE]
              /\ last' = Last("rtask_askcancel", rt.devid, r.ret, rsp.reply,
                              rt.devid)
       ELSE /\ devs' = devs
            /\ rt' = [rt EXCEPT !.pc = "sleep"]
            /\ last' = Last("rtask_askcancel", rt.devid, "notcalled",
                            rsp.reply, rt.devid)
    /\ UNCHANGED <<phase, exit_code, have_hackrf, numdevs>>
    /\ UNCHANGED <<vars, mvars, config, commands, main>>

\* time.sleep(LOOP_SLEEP): line 116 inside a task, lines 122 and 125
\* outside.
rt_sleep ==
    /\ rt.pc = "sleep"
    /\ rt' = IF rt.task
             THEN [rt EXCEPT !.pc = "poll",
                             !.elapsed = rt.elapsed + REMOTETASK_LOOP_SLEEP]
             ELSE [rt EXCEPT !.pc = "top"]
    /\ last' = Last("sleep", rt.devid, "notcalled", "None", rt.devid)
    /\ UNCHANGED <<phase, exit_code, have_hackrf, numdevs, devs>>
    /\ UNCHANGED <<vars, mvars, config, commands, main>>

\* Line 127: self.devmod.freedev(self.devid), and the return.
rt_freedev ==
    /\ rt.pc = "free"
    /\ LET r == freedev(devs, rt.devid) IN
         /\ devs' = r.devs
         /\ rt' = [rt EXCEPT !.pc = IF r.ret = "KeyError" THEN "dead" ELSE "done"]
         /\ last' = Last("rt_freedev", rt.devid, "notcalled", r.ret, rt.devid)
    /\ UNCHANGED <<phase, exit_code, have_hackrf, numdevs>>
    /\ UNCHANGED <<vars, mvars, config, commands, main>>

\* A step of the dispatcher thread.
RemoteTaskDispatcher_run ==
    \/ rt_while
    \/ \E rsp \in GetResponses, ok \in BOOLEAN : rt_get(rsp, ok)
    \/ \E b \in BOOLEAN : rt_poll(b)
    \/ \E rsp \in CancelResponses, b \in BOOLEAN : rt_askcancel(rsp, b)
    \/ rt_sleep
    \/ rt_freedev

RtNext ==
    \/ \E setup_ok \in BOOLEAN, rtlsdr_devcount \in 0..MaxRtlsdr,
          hackrf_truthy \in BOOLEAN :
         GrfModuleDevices_init(setup_ok, rtlsdr_devcount, hackrf_truthy)
    \/ \E parsed \in RtRunArgs : cmd_run_remotetask(parsed)
    \/ \E args \in {"0", "1", "a"} : cmd_stop_remotetask(args)
    \/ RemoteTaskDispatcher_run

\* One dispatcher under the run and stop commands.
RtSpec == Init /\ [][RtNext]_<<vars, dvars, kvars, mvars>>

\* The dispatcher thread gets to run.
RtFairSpec == RtSpec /\ WF_<<vars, dvars, kvars, mvars>>(RemoteTaskDispatcher_run)

\* ================================================ claims on the dispatcher
\* C26: every remote task the dispatcher starts is stopped by it (the
\* target's stop is called) before it sends its next rtask_get or exits;
\* with the dispatcher thread scheduled fairly each started task is
\* eventually stopped, at the latest at the first poll at which the
\* elapsed time is at least the task's duration.
C26_StartedTaskIsStopped ==
    /\ [](rt.pc \in {"get", "free", "done", "dead"} => ~rt.task)
    /\ [][(rt.pc = "poll" /\ rt'.pc # "poll" /\ rt.elapsed >= rt.duration)
            => ~rt'.task /\ last'.ok # "notcalled"]_<<vars, dvars, kvars, mvars>>
    /\ rt.task ~> ~rt.task

\* C27: the dispatcher stops a running remote task only when the elapsed
\* time is at least the duration, when its own stop was requested, or
\* when rtask_askcancel returned cancel; a nocancel or error reply leaves
\* the task running and goes to the sleep, and on a cancel reply the
\* target's stop is called in that same pass, before any further
\* rtask_askcancel.
C27_StopOnlyWhenDue ==
    [][(rt.pc \in {"poll", "askcancel"} /\ rt'.pc # rt.pc)
         => /\ (last'.ok # "notcalled" \/ ~rt'.task \/ devs' # devs)
                 => \/ rt.elapsed >= rt.duration
                    \/ rt.stoprequest
                    \/ rt.pc = "askcancel" /\ last'.ret = "cancel"
            /\ (rt.pc = "askcancel" /\ last'.ret \in {"nocancel", "error"})
                 => /\ rt'.task
                    /\ last'.ok = "notcalled"
                    /\ devs' = devs
                    /\ rt'.pc = "sleep"
            /\ (rt.pc = "askcancel" /\ last'.ret = "cancel")
                 => /\ last'.ok # "notcalled"
                    /\ ~rt'.task
                    /\ rt'.pc = "top"]_<<vars, dvars, kvars, mvars>>

\* A cancel reply has stopped a task before its duration was over.
C27_CanceledTask ==
    /\ last.op = "rtask_askcancel"
    /\ last.ret = "cancel"
    /\ last.ok = "True"
    /\ rt.elapsed < rt.duration
    /\ ~rt.stoprequest
    /\ ~rt.task

\* C28: whenever the dispatcher thread has exited, by its return or by an
\* exception, the device it was enrolled on is free, and when it frees
\* the device no task it started is still to be stopped; after its stop
\* was requested by a stop command on its device, the device is
\* eventually free.
C28_ExitFreesDevice ==
    /\ [](rt.pc \in {"done", "dead"} => ~occupied(devs, rt.devid))
    /\ [][(rt.pc = "free" /\ rt'.pc # "free") => ~rt.task]_<<vars, dvars, kvars, mvars>>
    /\ rt.stoprequest ~> ~occupied(devs, rt.devid)

\* C29: two consecutive rtask_get exchanges of the dispatcher are separated
\* by a sleep or by a task run: an exchange that does not lead to a
\* running task (and does not end the thread) is followed by the sleep,
\* and no exchange follows an exchange directly.
C29_GetsAreSpaced ==
    [][(rt.pc = "get" /\ rt'.pc # "get")
         => /\ last.op # "rtask_get"
            /\ (~rt'.task /\ rt'.pc # "dead") => rt'.pc = "sleep"]_<<vars, dvars, kvars, mvars>>

\* C30: after a remote task's duration has elapsed and the dispatcher has
\* called the target's stop, no job of running() names the target module
\* and the device the task ran on is free.
C30_FinishedTaskFreesDevice ==
    [][(rt.pc = "poll" /\ rt'.pc # "poll" /\ rt.elapsed >= rt.duration)
         => /\ last'.ok # "notcalled"
            /\ \A i \in 1..Len(running(devs')) :
                 running(devs')[i][1] # rt.targetmod
            /\ ~occupied(devs', rt.devid)]_<<vars, dvars, kvars, mvars>>

\* =================================================== the worker modules
\* The module objects' run and stop and the worker threads they start,
\* under the REPL's run and stop commands and the remote-task dispatchers
\* (each enrolled dispatcher is taken by what it does to its target: it
\* runs a task on it and stops it).

\* config['modules'] here.
ModLoadedmods == WorkerMods \cup {"remotetask"}

MaxThreads == 2
MaxEnrolled == 2

\* run <module> <devid> [<cmdline>] as the user types it, and the params
\* of the tasks the server hands out.
ModRunArgs ==
    {<<"scanner", "0">>, <<"snapshot", "0", "100M 200M">>, <<"snapshot", "0">>,
     <<"remotetask", "0", "scanner">>, <<"remotetask", "0", "snapshot">>}
TaskParams == {"100M 200M", "none"}

\* What a module's run did: what it returned and the state it left.
Ran(ret, ms, ths, enr) ==
    [ret |-> ret, mods |-> ms, threads |-> ths, enrolled |-> enr]

\* loadedmods[module].run(grfstate, devid, cmdline, remotetask):
\*   scanner (gammarf_scanner.py:193-208) and adsb (gammarf_adsb.py:238-
\*   256) assign self.remotetask, then refuse when self.worker is set;
\*   snapshot (gammarf_snapshot.py:112-156) assigns self.remotetask, checks
\*   its cmdline (two words) and starts a worker: it has no test of
\*   self.worker;
\*   remotetask (gammarf_remotetask.py:228-280) starts a dispatcher.
module_run(module, devid, cmdline, remotetask) ==
    LET noted == IF module \in WorkerMods
                 THEN [mods EXCEPT ![module].remotetask = remotetask]
                 ELSE mods
        started == Ran(TRUE, [noted EXCEPT ![module].worker = TRUE],
                       Append(threads, [module |-> module, devid |-> devid,
                                        remotetask |-> remotetask]),
                       enrolled)
        refused == Ran(FALSE, noted, threads, enrolled)
    IN  IF module = "remotetask"
        THEN IF remotetask_run(devid, cmdline)
             THEN Ran(TRUE, mods, threads,
                      Append(enrolled, [devid |-> devid,
                                        targetmod |-> Words(cmdline)[1],
                                        task |-> FALSE]))
             ELSE Ran(FALSE, mods, threads, enrolled)
        ELSE IF module = "snapshot"
        THEN IF Len(Words(cmdline)) # 2 THEN refused ELSE started
        ELSE IF mods[module].worker THEN refused ELSE started

\* What a module's stop did.
Stopped(ret, ms, ths, ds) ==
    [ret |-> ret, mods |-> ms, threads |-> ths, devs |-> ds]

\* loadedmods[module].stop(devid, devmod): snapshot's (gammarf_snapshot.py:
\* 158-162) returns False and does nothing; the other modules inherit
\* stop, which stops the module's worker if it has one, forgets it and
\* frees the device.
worker_stop(module, devid) ==
    IF module = "snapshot" \/ ~mods[module].worker
    THEN Stopped("False", mods, threads, devs)
    ELSE Stopped("True", [mods EXCEPT ![module].worker = FALSE],
                 SelectSeq(threads, LAMBDA th : th.module # module),
                 base_stop(devs, devid, TRUE).devs)

\* cmd_run (gammarf.py:497-572) up to the return of the module's run.
cmd_run_call(parsed) ==
    /\ phase = "up"
    /\ pending = <<>>
    /\ LET module == parsed[1]
           devid == I(IntOf[parsed[2]])
           cmdline == IF Len(parsed) > 2 THEN parsed[3] ELSE NoCmdline
           devtype == get_devtype(devs, devid).ret
           id == IF devtype = "hackrf" THEN next_virtualdev(devs) ELSE devid
           r == module_run(module, id, cmdline, FALSE)
       IN  IF \/ module \notin ModLoadedmods \/ module \in system_mods
              \/ ~isdev(devs, devid)
              \/ usable(devs, devid).ret # "True"
              \/ ~isproxy(module) /\ devtype \notin devices(module)
              \/ occupied(devs, devid)
              \/ devtype = "hackrf" /\ (~have_hackrf \/ id = NoKey)
           THEN /\ last' = Last("run", devid, "notcalled", "None", NoKey)
                /\ UNCHANGED <<mods, threads, enrolled, pending>>
           ELSE /\ mods' = r.mods
                /\ threads' = r.threads
                /\ enrolled' = r.enrolled
                /\ pending' = IF r.ret THEN <<id, module, cmdline>> ELSE <<>>
                /\ last' = Last("run", devid, IF r.ret THEN "True" ELSE "False",
                                module, id)
    /\ UNCHANGED <<phase, exit_code, have_hackrf, numdevs, devs, child>>
    /\ UNCHANGED <<vars, kvars>>

\* Lines 570-572: devmod.occupy(devid, module, cmdline, pseudo) after the
\* module's run returned true.
cmd_run_occupy ==
    /\ pending # <<>>
    /\ devs' = occupy(devs, pending[1], pending[2], pending[3], FALSE).devs
    /\ pending' = <<>>
    /\ last' = Last("occupy", pending[1], "notcalled", pending[2], pending[1])
    /\ UNCHANGED <<phase, exit_code, have_hackrf, numdevs>>
    /\ UNCHANGED <<mods, threads, enrolled, child>>
    /\ UNCHANGED <<vars, kvars>>

\* cmd_stop (gammarf_devices.py:508-546) on a device that a worker module
\* holds.
cmd_stop_worker(args) ==
    /\ phase = "up"
    /\ pending = <<>>
    /\ LET n == IntOf[args]
           devid == IF n = ValueError THEN S(args) ELSE I(n)
           module == devid_to_module(devs, devid)
           r == worker_stop(module, devid)
       IN  /\ isdev(devs, devid)
           /\ ~reserved(devs, devid)
           /\ module \in WorkerMods
           /\ mods' = r.mods
           /\ threads' = r.threads
           /\ devs' = r.devs
           /\ last' = Last("stop", devid, r.ret, module, devid)
    /\ UNCHANGED <<phase, exit_code, have_hackrf, numdevs>>
    /\ UNCHANGED <<enrolled, pending, child>>
    /\ UNCHANGED <<vars, kvars>>

\* gammarf_remotetask.py:70-72: the i-th dispatcher got a task and calls
\* its target's run.
dispatcher_run(i, params) ==
    /\ ~enrolled[i].task
    /\ LET e == enrolled[i]
           r == module_run(e.targetmod, e.devid, params, TRUE)
       IN  /\ mods' = r.mods
           /\ threads' = r.threads
           /\ enrolled' = [enrolled EXCEPT ![i].task = r.ret]
           /\ last' = Last("rtask_run", e.devid,
                           IF r.ret THEN "True" ELSE "False", e.targetmod, e.devid)
    /\ UNCHANGED <<phase, exit_code, have_hackrf, numdevs, devs>>
    /\ UNCHANGED <<pending, child>>
    /\ UNCHANGED <<vars, kvars>>

\* gammarf_remotetask.py:80-108: the i-th dispatcher calls its target's
\* stop (the duration is over, its own stop was requested, or the server
\* said cancel).
dispatcher_stop(i) ==
    /\ enrolled[i].task
    /\ LET e == enrolled[i]
           r == worker_stop(e.targetmod, e.devid)
       IN  /\ mods' = r.mods
           /\ threads' = r.threads
           /\ devs' = r.devs
           /\ enrolled' = [enrolled EXCEPT ![i].task = FALSE]
           /\ last' = Last("rtask_stop", e.devid, r.ret, e.targetmod, e.devid)
    /\ UNCHANGED <<phase, exit_code, have_hackrf, numdevs>>
    /\ UNCHANGED <<pending, child>>
    /\ UNCHANGED <<vars, kvars>>

\* Snapshot.run ends (gammarf_snapshot.py:78-87): the j-th thread, a
\* snapshot worker, has sent its snapshot and frees its device unless it
\* runs a remote task.
snapshot_end(j) ==
    /\ threads[j].module = "snapshot"
    /\ devs' = IF threads[j].remotetask THEN devs
               ELSE freedev(devs, threads[j].devid).devs
    /\ threads' = SubSeq(threads, 1, j - 1) \o SubSeq(threads, j + 1, Len(threads))
    /\ last' = Last("snapshot_end", threads[j].devid, "notcalled", "snapshot",
                    threads[j].devid)
    /\ UNCHANGED <<phase, exit_code, have_hackrf, numdevs>>
    /\ UNCHANGED <<mods, enrolled, pending, child>>
    /\ UNCHANGED <<vars, kvars>>

ModNext ==
    \/ \E setup_ok \in BOOLEAN, rtlsdr_devcount \in 0..MaxRtlsdr,
          hackrf_truthy \in BOOLEAN :
         GrfModuleDevices_init(setup_ok, rtlsdr_devcount, hackrf_truthy)
    \/ \E parsed \in ModRunArgs :
         /\ cmd_run_call(parsed)
         /\ Len(threads') <= MaxThreads
         /\ Len(enrolled') <= MaxEnrolled
         /\ Cardinality(VirtualIds(devs)) < MaxVirtual
    \/ cmd_run_occupy
    \/ \E args \in {"0", "1", "a", "b"} : cmd_stop_worker(args)
    \/ \E i \in DOMAIN enrolled, params \in TaskParams :
         dispatcher_run(i, params) /\ Len(threads') <= MaxThreads
    \/ \E i \in DOMAIN enrolled : dispatcher_stop(i)
    \/ \E j \in DOMAIN threads : snapshot_end(j)

\* The worker modules under the REPL and the dispatchers.
ModSpec == Init /\ [][ModNext]_<<vars, dvars, kvars, mvars>>

\* ========================================== claims on the worker modules
\* C31: each worker module has at most one live worker at any time: a run
\* (from the REPL or from a dispatcher) on a module that has a live
\* worker returns failure and starts no second worker, snapshot included.
C31_OneWorkerPerModule ==
    /\ [](\A m \in WorkerMods :
            Len(SelectSeq(threads, LAMBDA th : th.module = m)) <= 1)
    /\ [][(/\ last'.op \in {"run", "rtask_run"}
           /\ last'.ok # "notcalled"
           /\ \E j \in DOMAIN threads : threads[j].module = last'.ret)
            => last'.ok = "False" /\ threads' = threads]_<<vars, dvars, kvars, mvars>>

\* ============================================= the child-process workers
\* Adsb, ISM433 and Tpms (modules/gammarf_adsb.py, gammarf_ism433.py,
\* gammarf_tpms.py): a thread that reads the lines a child process writes
\* to a pipe.  child.proc: "running", "exited" (the child ended on its
\* own and is not reaped), "reaped" (killed and waited for); child.pipe:
\* what the pipe holds ("empty", a "line", a "blank" line); child.pc: the
\* thread at the loop test ("test"), in readline ("readline"), in
\* time.sleep(LOOP_SLEEP) ("sleep"), after the loop ("cleanup"), returned
\* ("done").
ChildMods == {"adsb", "ism433", "tpms"}

\* run <module> <devid> on a free stick: GrfModule*.run (gammarf_adsb.py:
\* 238-256, gammarf_ism433.py:142-160) starts the child (Popen in the
\* thread's __init__) and the thread, and cmd_run records the job.
child_run(module, devid) ==
    /\ phase = "up"
    /\ child.pc = "none"
    /\ isdev(devs, devid)
    /\ usable(devs, devid).ret = "True"
    /\ get_devtype(devs, devid).ret = "rtlsdr"
    /\ ~occupied(devs, devid)
    /\ devs' = occupy(devs, devid, module, NoCmdline, FALSE).devs
    /\ child' = [NoChild EXCEPT !.module = module, !.pc = "test",
                                !.proc = "running", !.devid = devid]
    /\ last' = [Last("run", devid, "True", "None", devid)
                  EXCEPT !.job = Triple(module, NoCmdline, strftime)]
    /\ UNCHANGED <<phase, exit_code, have_hackrf, numdevs>>
    /\ UNCHANGED <<mods, threads, enrolled, pending>>
    /\ UNCHANGED <<vars, kvars>>

\* stop <devid>: the module's stop joins the worker.  join sets the stop
\* request (gammarf_adsb.py:202-204, gammarf_tpms.py:107-109); ISM433.join
\* (gammarf_ism433.py:99-108) also kills the child and waits for it.
child_stop ==
    /\ phase = "up"
    /\ child.pc # "none"
    /\ ~child.stoprequest
    /\ devid_to_module(devs, child.devid) = child.module
    /\ ~reserved(devs, child.devid)
    /\ child' = [child EXCEPT !.stoprequest = TRUE,
                              !.proc = IF child.module = "ism433"
                                       THEN "reaped" ELSE child.proc]
    /\ devs' = base_stop(devs, child.devid, TRUE).devs
    /\ last' = Last("stop", child.devid, "True", "None", child.devid)
    /\ UNCHANGED <<phase, exit_code, have_hackrf, numdevs>>
    /\ UNCHANGED <<mods, threads, enrolled, pending>>
    /\ UNCHANGED <<vars, kvars>>

\* What a step of the thread or of the child leaves alone.
child_frame ==
    /\ UNCHANGED <<dvars, kvars>>
    /\ UNCHANGED <<vars, mods, threads, enrolled, pending>>

\* while not self.stoprequest.isSet() (gammarf_adsb.py:68,
\* gammarf_ism433.py:65, gammarf_tpms.py:68).  ISM433.run returns after
\* the loop; Adsb.run and Tpms.run go on to kill the child.
child_test ==
    /\ child.pc = "test"
    /\ child' = [child EXCEPT !.pc =
                    IF ~child.stoprequest THEN "readline"
                    ELSE IF child.module = "ism433" THEN "done"
                    ELSE "cleanup"]
    /\ child_frame

\* msg = self.cmdpipe.stdout.readline().strip(): blocks while the child
\* runs and has written nothing; returns b'' at the end of the file once
\* the child is gone.  An empty msg goes back to the loop test, at once
\* (gammarf_adsb.py:71-72) or after a sleep (gammarf_ism433.py:67-69,
\* gammarf_tpms.py:70-72); a line is handled and the loop goes on.
child_readline ==
    /\ child.pc = "readline"
    /\ child.pipe # "empty" \/ child.proc # "running"
    /\ child' = [child EXCEPT !.pipe = "empty",
                              !.pc = IF child.pipe = "line" \/ child.module = "adsb"
                                     THEN "test" ELSE "sleep"]
    /\ child_frame

\* time.sleep(LOOP_SLEEP); continue
child_sleep ==
    /\ child.pc = "sleep"
    /\ child' = [child EXCEPT !.pc = "test"]
    /\ child_frame

\* gammarf_adsb.py:193-200, gammarf_tpms.py:98-105: close the pipe, kill
\* the child, wait for it, return.
child_cleanup ==
    /\ child.pc = "cleanup"
    /\ child' = [child EXCEPT !.pc = "done", !.proc = "reaped"]
    /\ child_frame

\* A step of the worker thread.
child_thread == child_test \/ child_readline \/ child_sleep \/ child_cleanup

\* The child process writes a line, or ends on its own.
child_writes(l) ==
    /\ child.proc = "running"
    /\ child.pipe = "empty"
    /\ child' = [child EXCEPT !.pipe = l]
    /\ child_frame

child_exits ==
    /\ child.proc = "running"
    /\ child' = [child EXCEPT !.proc = "exited"]
    /\ child_frame

ChildNext ==
    \/ \E setup_ok \in BOOLEAN, rtlsdr_devcount \in 0..MaxRtlsdr,
          hackrf_truthy \in BOOLEAN :
         GrfModuleDevices_init(setup_ok, rtlsdr_devcount, hackrf_truthy)
    \/ \E module \in ChildMods, devid \in DOMAIN devs : child_run(module, devid)
    \/ child_stop
    \/ child_thread
    \/ \E l \in {"line", "blank"} : child_writes(l)
    \/ child_exits

ChildSpec == Init /\ [][ChildNext]_<<vars, dvars, kvars, mvars>>

\* The worker thread gets to run; the child owes no output.
ChildFairSpec == ChildSpec /\ WF_<<vars, dvars, kvars, mvars>>(child_thread)


\* ================================= claims on the child-process workers
\* C32: for adsb, ism433 and tpms, once the stop request has been issued
\* the child process is killed and reaped, also when the child writes
\* nothing more after the stop request.
C32_StopReapsChild ==
    child.stoprequest ~> (child.proc = "reaped")

\* ====================================== further claims on the connector
\* C33: the connector's run never closes or replaces the command socket
\* or its poller while a sendcmd exchange that holds the command mutex is
\* using them: the teardown (lines 110-113) and the creation of new
\* sockets (lines 122-140) happen only when no exchange is in progress.
C33_NoTeardownDuringExchange ==
    [][(/\ \E t \in Threads : pc[t] \in InExchange /\ cmdlock = t
        /\ pc["conn"] \in {"backoff", "create"}
        /\ pc'["conn"] # pc["conn"])
         => cmdsock' = cmdsock /\ poller' = poller]_vars


\* C36: whatever happens while the connector's run handles a heartbeat
\* reply (a reply ok whose messages list has a length that is not a
\* multiple of three included), the loop keeps running, and the connector
\* thread is never dead while the state reads Connected.
C36_HeartbeatReplyKeepsLoop ==
    /\ [](pc["conn"] = "dead" => ~connected)
    /\ [][(pc["conn"] = "hbresp" /\ pc'["conn"] # "hbresp")
            => pc'["conn"] = "loopsleep"]_vars


\* C34: for a snapshot started by the run command, once cmd_run has
\* recorded the occupancy, a virtual slot holding a snapshot job has a
\* live snapshot worker on it: the slot is removed when the worker
\* completes, whichever of the worker's freedev and cmd_run's occupy comes
\* first.
C34_NoSlotWithoutWorker ==
    pending = <<>> =>
        \A k \in VirtualIds(devs) :
            devid_to_module(devs, k) = "snapshot" =>
                \E j \in DOMAIN threads :
                    threads[j].module = "snapshot" /\ threads[j].devid = k

\* C35: a run that is refused because the module's worker is already
\* running leaves the module's state as it was, its record of whether the
\* live worker runs a remote task included.
C35_RefusedRunChangesNothing ==
    [][\A m \in WorkerMods \ {"snapshot"} :
         (/\ last'.op \in {"run", "rtask_run"}
          /\ last'.ok = "False"
          /\ last'.ret = m
          /\ mods[m].worker)
            => mods'[m] = mods[m]]_<<vars, dvars, kvars, mvars>>

\* C37: at most one remote-task dispatcher exists per target module at any
\* time.
C37_OneDispatcherPerTarget ==
    \A i, j \in DOMAIN enrolled :
        i # j => enrolled[i].targetmod # enrolled[j].targetmod

\* C38: right after a dispatcher called stop on its target module, the
\* target has no running worker (so that the next task's run is accepted),
\* for every module that can be enrolled, snapshot included.
C38_StopEndsTargetWorker ==
    last.op = "rtask_stop" =>
        /\ \A j \in DOMAIN threads : threads[j].module # last.ret
        /\ module_run(last.ret, last.id, "100M 200M", TRUE).ret


\* C40: when the child process of a child-process module ends on its own,
\* the module's worker exits and the device it held is freed.
C40_ChildExitFreesDevice ==
    (child.proc = "exited") ~>
        (child.pc = "done" /\ ~occupied(devs, child.devid))


\* A step of the connector's run thread, and a step of a facade caller
\* inside sendcmd.
run_step ==
    \/ run_top \/ run_backoff \/ run_connect \/ run_heartbeat \/ run_reply
    \/ run_loop
    \/ sendcmd_lock("conn") \/ sendcmd_send("conn") \/ sendcmd_recv("conn")
    \/ sendcmd_timeout("conn") \/ sendcmd_repoll("conn")
caller_step ==
    \E t \in Users :
        sendcmd_lock(t) \/ sendcmd_send(t) \/ sendcmd_recv(t)
          \/ sendcmd_timeout(t) \/ sendcmd_repoll(t) \/ sendcmd_pollraise(t)

\* Every thread gets to run, and the server answers.
FairSpec ==
    /\ Spec
    /\ WF_vars(run_step) /\ WF_vars(caller_step) /\ WF_vars(ServerReply)

\* The environment is good in a step: a location fix is there, the
\* sockets can be created, a send on a ready socket goes out, and the
\* server answers the heartbeat with reply ok before the poll times out.
C39_GoodStep ==
    /\ loc'
    /\ ev'.kind = "attempt" => ev'.v = "ok"
    /\ (pc["conn"] = "send" /\ SockCanSend /\ pc'["conn"] # "poll")
          => pc'["conn"] = "send" /\ attempt'["conn"] = attempt["conn"]
    /\ (cmdlock = "conn" /\ cmdsock = "readable" /\ cmdsock' = "ready")
          => ev'.kind = "ret" /\ ev'.v = "ok"
    /\ (cmdlock = "conn" /\ cmdsock = "awaiting") => timer' = timer

\* While Disconnected, a heartbeat goes out only after try_connect.
C39_HeartbeatOnlyOnNewSockets ==
    [][(ev'.kind = "sent" /\ ev'.t = "conn" /\ ~connected)
          => try_connect]_vars

\* C39: once a transport failure has made the connector Disconnected, if
\* from some point on a location fix is there, the sockets can be created,
\* sends on a ready socket go out and the server answers every heartbeat
\* with reply ok in time, the connector becomes Connected again; and while
\* it is Disconnected a heartbeat goes out only right after the sockets
\* were newly created (try_connect).  Time is taken to pass: no thread
\* takes infinitely many steps within one tick.
C39_Reconnects ==
    /\ C39_HeartbeatOnlyOnNewSockets
    /\ ([]<><<Tick>>_vars /\ <>[][C39_GoodStep]_vars)
          => [](~connected => <>connected)

====
